---- MODULE Spec2Model ----
(***************************************************************************)
(* Verification model of the wiktionary-scanner-rust extraction pipeline:  *)
(* the four processing strategies (sequential, batch-parallel,             *)
(* channel-pipeline, two-phase), the page filter chain and the streaming   *)
(* page splitter.                                                          *)
(***************************************************************************)
EXTENDS Integers, Sequences, FiniteSets, TLC

\* ------------------------------------------------------------------------
\* Bounds of the model
\* ------------------------------------------------------------------------
MaxPages == 2        \* pages of an input stream
MaxEntries == 2      \* entries parse_page returns for one page
MaxLimit == 2        \* largest output limit
MaxFail == 1         \* latest first failing write
MaxSegs == 4         \* segments a byte stream is built from

\* ParallelConfig values used in the runs (parallel.rs:22-31)
NumWorkers == 2
NumThreads == 2
BatchSize == 2
ChannelBuffer == 1

\* Option::None for the optional output limit
None == 0 - 1

\* The sequences of at most n elements of a set
Streams(kinds, n) == UNION { [1..m -> kinds] : m \in 0..n }

Min(a, b) == IF a < b THEN a ELSE b
Max(a, b) == IF a > b THEN a ELSE b

\* ------------------------------------------------------------------------
\* Page fragments.  A fragment is described by what the patterns of
\* main.rs:343-369 find in it.
\*   hasTitle    TITLE_PATTERN matches page_xml
\*   ns          "absent", "0" or another namespace id (NS_PATTERN)
\*   prefix      the title starts with a reserved prefix
\*   redirTag    REDIRECT_PATTERN matches page_xml outside the <text> body
\*   hasText     TEXT_PATTERN matches page_xml
\*   redirInText REDIRECT_PATTERN matches inside the <text> body
\*   english     ENGLISH_SECTION matches the text
\*   dictOnly    DICT_ONLY matches the text
\*   latin       is_englishlike(title)
\*   nentries    number of entries parse_page returns for (title, text)
\* ------------------------------------------------------------------------
Page(t, n, p, rt, tx, ri, en, d, l, k) ==
    [hasTitle |-> t, ns |-> n, prefix |-> p, redirTag |-> rt, hasText |-> tx,
     redirInText |-> ri, english |-> en, dictOnly |-> d, latin |-> l,
     nentries |-> k]

GoodPage(k) == Page(TRUE, "0", FALSE, FALSE, TRUE, FALSE, TRUE, FALSE, TRUE, k)

PageKinds ==
    { GoodPage(k) : k \in 0..MaxEntries } \cup
    { [GoodPage(0) EXCEPT !.hasTitle = FALSE],
      [GoodPage(1) EXCEPT !.ns = "14"],
      [GoodPage(1) EXCEPT !.ns = "absent", !.prefix = TRUE],
      \* an ordinary redirect page: marker element, text is "#REDIRECT [[x]]"
      [GoodPage(0) EXCEPT !.redirTag = TRUE, !.english = FALSE],
      \* a redirect marker on a page whose text is a full English entry
      [GoodPage(1) EXCEPT !.redirTag = TRUE],
      \* a redirect marker and no text element
      [GoodPage(0) EXCEPT !.redirTag = TRUE, !.hasText = FALSE, !.english = FALSE],
      \* the marker pattern occurs inside the text body
      [GoodPage(1) EXCEPT !.redirInText = TRUE],
      [GoodPage(0) EXCEPT !.hasText = FALSE, !.english = FALSE],
      [GoodPage(0) EXCEPT !.english = FALSE],
      [GoodPage(1) EXCEPT !.dictOnly = TRUE],
      [GoodPage(1) EXCEPT !.latin = FALSE] }

\* REDIRECT_PATTERN.is_match(&page_xml): the text body is part of page_xml
RedirectInXml(p) == p.redirTag \/ (p.hasText /\ p.redirInText)

\* REDIRECT_PATTERN.is_match(&raw.text)
RedirectInText(p) == p.redirInText

HasSpecialPrefix(p) == p.prefix

NsNotMain(p) == p.ns # "absent" /\ p.ns # "0"

\* parse_page(title, text): the entries of page number id
ParsePage(p, id) == [i \in 1..p.nentries |-> [page |-> id, sense |-> i]]

\* ------------------------------------------------------------------------
\* Stats (main.rs:2009-2025), without elapsed time and case counters
\* ------------------------------------------------------------------------
StatsDefault ==
    [pages_processed |-> 0, words_written |-> 0, senses_written |-> 0,
     special |-> 0, redirects |-> 0, dict_only |-> 0, non_english |-> 0,
     non_latin |-> 0, skipped |-> 0]

Bump(st, f) == [st EXCEPT ![f] = @ + 1]

\* ------------------------------------------------------------------------
\* The output sink.  The failAt-th and every later writeln! fails
\* (failAt = 0: the sink never fails).
\* ------------------------------------------------------------------------
WriteFails(fa, n) == fa # 0 /\ n + 1 >= fa


\* ------------------------------------------------------------------------
\* parallel.rs: extraction and processing of one page
\* ------------------------------------------------------------------------

\* extract_pages_from_xml returns Some(RawPage)
ExtractOk(p) ==
    /\ p.hasTitle
    /\ ~NsNotMain(p)
    /\ ~HasSpecialPrefix(p)
    /\ p.hasText

Result(id, es, eng, red, spec, nl, d) ==
    [page_id |-> id, entries |-> es, was_english |-> eng, was_redirect |-> red,
     was_special |-> spec, was_non_latin |-> nl, was_dict_only |-> d]

\* process_raw_page
ProcessRawPage(p, id) ==
    IF RedirectInText(p) THEN Result(id, <<>>, FALSE, TRUE, FALSE, FALSE, FALSE)
    ELSE IF ~p.english THEN Result(id, <<>>, FALSE, FALSE, FALSE, FALSE, FALSE)
    ELSE IF p.dictOnly THEN Result(id, <<>>, TRUE, FALSE, FALSE, FALSE, TRUE)
    ELSE IF ~p.latin THEN Result(id, <<>>, TRUE, FALSE, FALSE, TRUE, FALSE)
    ELSE Result(id, ParsePage(p, id), TRUE, FALSE, FALSE, FALSE, FALSE)

\* The tests without the else: a page without entries is counted as
\* skipped whatever else it was counted as
UpdateStatsNoElse(st, r) ==
    LET st1 == IF r.was_redirect THEN Bump(st, "redirects")
               ELSE IF r.was_special THEN Bump(st, "special")
               ELSE IF ~r.was_english THEN Bump(st, "non_english")
               ELSE IF r.was_dict_only THEN Bump(st, "dict_only")
               ELSE IF r.was_non_latin THEN Bump(st, "non_latin")
               ELSE st
    IN IF r.entries = <<>> THEN Bump(st1, "skipped") ELSE Bump(st1, "words_written")

\* update_stats_from_result
UpdateStatsFromResult(st, r) ==
    IF r.was_redirect THEN Bump(st, "redirects")
    ELSE IF r.was_special THEN Bump(st, "special")
    ELSE IF ~r.was_english THEN Bump(st, "non_english")
    ELSE IF r.was_dict_only THEN Bump(st, "dict_only")
    ELSE IF r.was_non_latin THEN Bump(st, "non_latin")
    ELSE IF r.entries = <<>> THEN Bump(st, "skipped")
    ELSE Bump(st, "words_written")

\* The writer's state: statistics, the records on the output stream, the
\* number of writeln! calls made so far and (history) the ids of the pages
\* whose results were taken for writing, in that order.
Sink(st, o, n, lg) == [stats |-> st, out |-> o, nwrites |-> n, log |-> lg]

\* WriteEntries without the limit check after a write
RECURSIVE WriteEntriesNoLimit(_, _, _, _)
WriteEntriesNoLimit(es, sk, lim, fa) ==
    IF es = <<>> THEN [sink |-> sk, res |-> "more"]
    ELSE IF WriteFails(fa, sk.nwrites)
         THEN [sink |-> [sk EXCEPT !.nwrites = @ + 1], res |-> "err"]
    ELSE WriteEntriesNoLimit(Tail(es),
                             [sk EXCEPT !.stats = Bump(@, "senses_written"),
                                        !.out = Append(@, Head(es)),
                                        !.nwrites = @ + 1],
                             lim, fa)

\* The loop over result.entries of the write_result closure (and of the
\* identical loops of process_batch_parallel and process_two_phase):
\* writeln!(..)?, senses_written += 1, limit check.  Yields the sink and
\* "more" (Ok(false)), "limit" (Ok(true)) or "err".
RECURSIVE WriteEntries(_, _, _, _)
WriteEntries(es, sk, lim, fa) ==
    IF es = <<>> THEN [sink |-> sk, res |-> "more"]
    ELSE IF WriteFails(fa, sk.nwrites)
         THEN [sink |-> [sk EXCEPT !.nwrites = @ + 1], res |-> "err"]
    ELSE LET sk1 == [sk EXCEPT !.stats = Bump(@, "senses_written"),
                               !.out = Append(@, Head(es)),
                               !.nwrites = @ + 1]
         IN IF lim # None /\ sk1.stats.senses_written >= lim
            THEN [sink |-> sk1, res |-> "limit"]
            ELSE WriteEntries(Tail(es), sk1, lim, fa)

\* write_result closure of write_results_sorted
WriteResult(r, sk, lim, fa) ==
    LET st1 == UpdateStatsFromResult(Bump(sk.stats, "pages_processed"), r)
    IN WriteEntries(r.entries,
                    [sk EXCEPT !.stats = st1, !.log = Append(@, r.page_id)],
                    lim, fa)

\* for result in results { write_result }: stops at the first result that
\* reaches the limit or fails
RECURSIVE WriteResults(_, _, _, _)
WriteResults(rs, sk, lim, fa) ==
    IF rs = <<>> THEN [sink |-> sk, res |-> "more"]
    ELSE LET w == WriteResult(Head(rs), sk, lim, fa)
         IN IF w.res # "more" THEN w
            ELSE WriteResults(Tail(rs), w.sink, lim, fa)

\* chunk.into_iter().filter_map(|(pid, xml)|
\*     extract_pages_from_xml(&xml, pid).map(process_raw_page)).collect()
\* for the pages xs whose first page has id base
RECURSIVE ProcessChunk(_, _)
ProcessChunk(xs, base) ==
    IF xs = <<>> THEN <<>>
    ELSE (IF ExtractOk(Head(xs)) THEN <<ProcessRawPage(Head(xs), base)>> ELSE <<>>)
         \o ProcessChunk(Tail(xs), base + 1)

\* The results of the threads, joined in the order of their chunks
RECURSIVE JoinChunks(_, _, _)
JoinChunks(xs, base, chunk_size) ==
    IF xs = <<>> THEN <<>>
    ELSE LET n == Min(chunk_size, Len(xs))
         IN ProcessChunk(SubSeq(xs, 1, n), base)
            \o JoinChunks(SubSeq(xs, n + 1, Len(xs)), base + n, chunk_size)

\* process_batch_threaded
ProcessBatchThreaded(bt, base_id, num_threads) ==
    IF bt = <<>> THEN <<>>
    ELSE LET nt == Max(Min(num_threads, Len(bt)), 1)
             chunk_size == (Len(bt) + nt - 1) \div nt
         IN JoinChunks(bt, base_id, chunk_size)

\* process_all_pages_parallel
ProcessAllPagesParallel(pages, num_threads) ==
    IF pages = <<>> THEN <<>>
    ELSE LET nt == Max(Min(num_threads, Len(pages)), 1)
             chunk_size == (Len(pages) + nt - 1) \div nt
         IN JoinChunks(pages, 0, chunk_size)

\* ------------------------------------------------------------------------
\* main.rs: the callback run_sequential passes to scan_pages
\* ------------------------------------------------------------------------

\* for entry in entries { writeln!(..).ok(); senses_written += 1; limit }
\* Yields the sink, the limit_reached cell and the callback's return value.
RECURSIVE SeqWriteEntries(_, _, _, _)
SeqWriteEntries(es, sk, lim, fa) ==
    IF es = <<>> THEN [sink |-> sk, lr |-> FALSE, cont |-> TRUE]
    ELSE LET sk1 == [sk EXCEPT !.stats = Bump(@, "senses_written"),
                               !.out = IF WriteFails(fa, sk.nwrites) THEN @
                                       ELSE Append(@, Head(es)),
                               !.nwrites = @ + 1]
         IN IF lim # None /\ sk1.stats.senses_written >= lim
            THEN [sink |-> sk1, lr |-> TRUE, cont |-> FALSE]
            ELSE SeqWriteEntries(Tail(es), sk1, lim, fa)

\* The closure of run_sequential for the page p, the id-th of the stream
SeqCallback(p, id, sk, lr, lim, fa) ==
    IF lr THEN [sink |-> sk, lr |-> lr, cont |-> FALSE]
    ELSE LET st == Bump(sk.stats, "pages_processed")
             Reject(f) == [sink |-> [sk EXCEPT !.stats = Bump(st, f),
                                               !.log = Append(@, id)],
                           lr |-> lr, cont |-> TRUE]
         IN IF ~p.hasTitle THEN Reject("skipped")
            ELSE IF NsNotMain(p) THEN Reject("special")
            ELSE IF HasSpecialPrefix(p) THEN Reject("special")
            ELSE IF RedirectInXml(p) THEN Reject("redirects")
            ELSE IF ~p.hasText THEN Reject("skipped")
            ELSE IF ~p.english THEN Reject("non_english")
            ELSE IF p.dictOnly THEN Reject("dict_only")
            ELSE IF ~p.latin THEN Reject("non_latin")
            ELSE IF ParsePage(p, id) = <<>> THEN Reject("skipped")
            ELSE SeqWriteEntries(ParsePage(p, id),
                                 [sk EXCEPT !.stats = Bump(st, "words_written"),
                                            !.log = Append(@, id)],
                                 lim, fa)


\* ------------------------------------------------------------------------
\* parallel.rs: the reorder buffer of write_results_sorted
\* ------------------------------------------------------------------------

\* pending.insert(page_id, result)
PendingInsert(pend, r) ==
    [k \in DOMAIN pend \cup {r.page_id} |-> IF k = r.page_id THEN r ELSE pend[k]]

\* pending.remove(&k)
PendingRemove(pend, k) == [j \in DOMAIN pend \ {k} |-> pend[j]]

\* pending.first_key_value(): the smallest key
FirstKey(pend) == CHOOSE k \in DOMAIN pend : \A j \in DOMAIN pend : k <= j

\* while let Some(buffered) = pending.remove(&next_expected) { .. }
RECURSIVE DrainReady(_, _, _, _, _)
DrainReady(pend, ne, sk, lim, fa) ==
    IF ne \notin DOMAIN pend
    THEN [pending |-> pend, next |-> ne, sink |-> sk, res |-> "more"]
    ELSE LET w == WriteResult(pend[ne], sk, lim, fa)
         IN IF w.res # "more"
            THEN [pending |-> PendingRemove(pend, ne), next |-> ne,
                  sink |-> w.sink, res |-> w.res]
            ELSE DrainReady(PendingRemove(pend, ne), ne + 1, w.sink, lim, fa)

\* OnResult without the reorder buffer: every result is written on arrival
OnResultUnordered(r, pend, ne, sk, lim, fa) ==
    LET w == WriteResult(r, sk, lim, fa)
    IN [pending |-> pend, next |-> ne + 1, sink |-> w.sink, res |-> w.res]

\* The body of "for result in rx" for one received result
OnResult(r, pend, ne, sk, lim, fa) ==
    IF r.page_id = ne
    THEN LET w == WriteResult(r, sk, lim, fa)
         IN IF w.res # "more"
            THEN [pending |-> pend, next |-> ne, sink |-> w.sink, res |-> w.res]
            ELSE DrainReady(pend, ne + 1, w.sink, lim, fa)
    ELSE [pending |-> PendingInsert(pend, r), next |-> ne, sink |-> sk,
          res |-> "more"]

\* No drain after the channel has closed
DrainRestSkipped(pend, sk, lim, fa) == [pending |-> pend, sink |-> sk, res |-> "more"]

\* while let Some((&page_id, _)) = pending.first_key_value() { .. }
RECURSIVE DrainRest(_, _, _, _)
DrainRest(pend, sk, lim, fa) ==
    IF DOMAIN pend = {} THEN [pending |-> pend, sink |-> sk, res |-> "more"]
    ELSE LET k == FirstKey(pend)
             w == WriteResult(pend[k], sk, lim, fa)
         IN IF w.res # "more"
            THEN [pending |-> PendingRemove(pend, k), sink |-> w.sink, res |-> w.res]
            ELSE DrainRest(PendingRemove(pend, k), w.sink, lim, fa)

\* ------------------------------------------------------------------------
\* main.rs: scan_pages, the streaming page splitter (the same loop is in
\* read_all_pages, read_pages_to_channel and process_batch_parallel).
\* Streams and the String buffer are sequences of bytes: ASCII bytes stand
\* for themselves, "L" "C" are the lead and continuation byte of a two-byte
\* character, "R1" "R2" "R3" the three bytes of U+FFFD.
\* ------------------------------------------------------------------------
PageOpen == <<"<", "p", "a", "g", "e", ">">>
PageClose == <<"<", "/", "p", "a", "g", "e", ">">>
Replacement == <<"R1", "R2", "R3">>
KeepBytes == 10

IsContinuation(b) == b \in {"C", "R2", "R3"}

\* String::from_utf8_lossy(&chunk[..bytes_read]): an incomplete or stray
\* byte of a multi-byte character becomes U+FFFD
RECURSIVE FromUtf8Lossy(_)
FromUtf8Lossy(bs) ==
    IF bs = <<>> THEN <<>>
    ELSE IF Head(bs) = "L"
         THEN IF Len(bs) >= 2 /\ bs[2] = "C"
              THEN <<"L", "C">> \o FromUtf8Lossy(SubSeq(bs, 3, Len(bs)))
              ELSE Replacement \o FromUtf8Lossy(Tail(bs))
    ELSE IF Head(bs) = "C" THEN Replacement \o FromUtf8Lossy(Tail(bs))
    ELSE <<Head(bs)>> \o FromUtf8Lossy(Tail(bs))

\* str::find: the first position >= from where pat occurs in buf, 0 if none
Find(buf, pat, from) ==
    LET hits == { i \in from..(Len(buf) - Len(pat) + 1) :
                    SubSeq(buf, i, i + Len(pat) - 1) = pat }
    IN IF hits = {} THEN 0 ELSE CHOOSE i \in hits : \A j \in hits : i <= j

\* str::is_char_boundary(n) for the byte offset n
IsCharBoundary(buf, n) ==
    n = 0 \/ n = Len(buf) \/ (n < Len(buf) /\ ~IsContinuation(buf[n + 1]))

\* while let Some(start) = buffer.find("<page>") { .. }: the complete pages
\* are handed to the callback, an open page is kept from its start marker
RECURSIVE ExtractPages(_, _)
ExtractPages(buf, pages) ==
    LET start == Find(buf, PageOpen, 1)
    IN IF start = 0 THEN [buffer |-> buf, pages |-> pages]
       ELSE LET close == Find(buf, PageClose, start)
            IN IF close = 0
               THEN [buffer |-> SubSeq(buf, start, Len(buf)), pages |-> pages]
               ELSE LET end == close + Len(PageClose) - 1
                    IN ExtractPages(SubSeq(buf, end + 1, Len(buf)),
                                    Append(pages, SubSeq(buf, start, end)))

\* if buffer.len() > 10 && !buffer.contains("<page>")
\*     { buffer.drain(..buffer.len().saturating_sub(10)); }
\* String::drain panics when the offset is inside a character.
TrimBuffer(buf) ==
    IF Len(buf) > KeepBytes /\ Find(buf, PageOpen, 1) = 0
    THEN IF IsCharBoundary(buf, Len(buf) - KeepBytes)
         THEN [buffer |-> SubSeq(buf, Len(buf) - KeepBytes + 1, Len(buf)),
               panic |-> FALSE]
         ELSE [buffer |-> buf, panic |-> TRUE]
    ELSE [buffer |-> buf, panic |-> FALSE]

\* The byte streams of the model: up to MaxSegs of these segments
Segments == {PageOpen, PageClose, <<"x">>, <<"L", "C">>}

RECURSIVE Concat(_)
Concat(ss) == IF ss = <<>> THEN <<>> ELSE Head(ss) \o Concat(Tail(ss))

ByteStreams == { Concat(ss) : ss \in Streams(Segments, MaxSegs) }

\* ------------------------------------------------------------------------
\* WikitextParser: the recursive descent parser of template parameters.
\* A text is a sequence of characters, pos the 1-based index of the next
\* character; every parse function returns its value and the new pos.
\* ------------------------------------------------------------------------

\* str::trim on the one whitespace character of the alphabet
RECURSIVE TrimStart(_)
TrimStart(s) == IF s # <<>> /\ Head(s) = " " THEN TrimStart(Tail(s)) ELSE s

RECURSIVE TrimEnd(_)
TrimEnd(s) ==
    IF s # <<>> /\ s[Len(s)] = " " THEN TrimEnd(SubSeq(s, 1, Len(s) - 1)) ELSE s

Trim(s) == TrimEnd(TrimStart(s))

\* Option<String>
NoneString == [some |-> FALSE, val |-> <<>>]
Some(s) == [some |-> TRUE, val |-> s]

Peek(text, pos, n) == SubSeq(text, pos, Min(pos + n - 1, Len(text)))
AtEnd(text, pos) == pos > Len(text)
Consume(text, pos, n) == Min(pos + n, Len(text) + 1)

RECURSIVE ParseTarget(_, _, _)
ParseTarget(text, pos, result) ==
    IF AtEnd(text, pos) \/ text[pos] \in {"#", "|", "]"}
    THEN [s |-> result, pos |-> pos]
    ELSE ParseTarget(text, pos + 1, Append(result, text[pos]))

RECURSIVE ParseAnchor(_, _, _)
ParseAnchor(text, pos, result) ==
    IF AtEnd(text, pos) \/ text[pos] \in {"|", "]"}
    THEN [s |-> result, pos |-> pos]
    ELSE ParseAnchor(text, pos + 1, Append(result, text[pos]))

\* A display part that also ends at '|'
RECURSIVE ParseDisplayToPipe(_, _, _)
ParseDisplayToPipe(text, pos, result) ==
    IF AtEnd(text, pos) \/ text[pos] \in {"|", "]"}
    THEN [s |-> result, pos |-> pos]
    ELSE ParseDisplayToPipe(text, pos + 1, Append(result, text[pos]))

RECURSIVE ParseDisplay(_, _, _)
ParseDisplay(text, pos, result) ==
    IF AtEnd(text, pos) \/ Peek(text, pos, 1) = <<"]">>
    THEN [s |-> result, pos |-> pos]
    ELSE ParseDisplay(text, pos + 1, Append(result, text[pos]))

\* wikilink ::= "[[" target ("#" anchor)? ("|" display)? "]]"
ParseWikilink(text, pos) ==
    LET p1 == Consume(text, pos, 2)
        t == ParseTarget(text, p1, <<>>)
        hasAnchor == Peek(text, t.pos, 1) = <<"#">>
        a == IF hasAnchor THEN ParseAnchor(text, t.pos + 1, <<>>)
             ELSE [s |-> <<>>, pos |-> t.pos]
        hasDisplay == Peek(text, a.pos, 1) = <<"|">>
        d == IF hasDisplay THEN ParseDisplay(text, a.pos + 1, <<>>)
             ELSE [s |-> <<>>, pos |-> a.pos]
    IN [link |-> [target |-> t.s,
                  anchor |-> IF hasAnchor THEN Some(a.s) ELSE NoneString,
                  display |-> IF hasDisplay THEN Some(d.s) ELSE NoneString],
        pos |-> IF Peek(text, d.pos, 2) = <<"]", "]">> THEN d.pos + 2 ELSE d.pos]

WikilinkTextTarget(w) == w.target

\* Wikilink::text
WikilinkText(w) == IF w.display.some THEN w.display.val ELSE w.target

RECURSIVE ParseTemplate(_, _)
RECURSIVE ParseTemplateParamsInner(_, _, _)
RECURSIVE ParseTemplateParamInner(_, _, _)

ParseTemplateParamInner(text, pos, result) ==
    IF \/ AtEnd(text, pos)
       \/ Peek(text, pos, 1) = <<"|">>
       \/ Peek(text, pos, 2) = <<"}", "}">>
    THEN [s |-> Trim(result), pos |-> pos]
    ELSE IF Peek(text, pos, 2) = <<"[", "[">>
    THEN LET w == ParseWikilink(text, pos)
         IN ParseTemplateParamInner(text, w.pos, result \o WikilinkText(w.link))
    ELSE IF Peek(text, pos, 2) = <<"{", "{">>
    THEN ParseTemplateParamInner(text, ParseTemplate(text, pos).pos, result)
    ELSE ParseTemplateParamInner(text, pos + 1, Append(result, text[pos]))

ParseTemplateParamsInner(text, pos, params) ==
    IF AtEnd(text, pos) \/ Peek(text, pos, 2) = <<"}", "}">>
    THEN [params |-> params, pos |-> pos]
    ELSE LET p == ParseTemplateParamInner(text, pos, <<>>)
         IN IF Peek(text, p.pos, 1) = <<"|">>
            THEN ParseTemplateParamsInner(text, p.pos + 1, Append(params, p.s))
            ELSE [params |-> Append(params, p.s), pos |-> p.pos]

\* A template skipped up to the first "}}", without recursion
RECURSIVE ParseTemplateFlat(_, _)
ParseTemplateFlat(text, pos) ==
    IF AtEnd(text, pos) THEN [template |-> [name |-> <<>>, params |-> <<>>], pos |-> pos]
    ELSE IF Peek(text, pos, 2) = <<"}", "}">>
    THEN [template |-> [name |-> <<>>, params |-> <<>>], pos |-> pos + 2]
    ELSE ParseTemplateFlat(text, pos + 1)

\* template ::= "{{" params "}}"
ParseTemplate(text, pos) ==
    LET inner == ParseTemplateParamsInner(text, Consume(text, pos, 2), <<>>)
    IN [template |-> [name |-> IF inner.params = <<>> THEN <<>>
                               ELSE Head(inner.params),
                      params |-> IF inner.params = <<>> THEN <<>>
                                 ELSE Tail(inner.params)],
        pos |-> IF Peek(text, inner.pos, 2) = <<"}", "}">>
                THEN inner.pos + 2 ELSE inner.pos]

\* param ::= element*  (terminated by | or end)
RECURSIVE ParseParam(_, _, _)
ParseParam(text, pos, result) ==
    IF AtEnd(text, pos) \/ Peek(text, pos, 1) = <<"|">>
    THEN [s |-> Trim(result), pos |-> pos]
    ELSE IF Peek(text, pos, 2) = <<"[", "[">>
    THEN LET w == ParseWikilink(text, pos)
         IN ParseParam(text, w.pos, result \o WikilinkText(w.link))
    ELSE IF Peek(text, pos, 2) = <<"{", "{">>
    THEN ParseParam(text, ParseTemplate(text, pos).pos, result)
    ELSE ParseParam(text, pos + 1, Append(result, text[pos]))

\* params ::= param ("|" param)*
RECURSIVE ParseParams(_, _, _)
ParseParams(text, pos, params) ==
    IF AtEnd(text, pos) THEN params
    ELSE LET p == ParseParam(text, pos, <<>>)
         IN IF Peek(text, p.pos, 1) = <<"|">>
            THEN ParseParams(text, p.pos + 1, Append(params, p.s))
            ELSE Append(params, p.s)

ParseTemplateParams(text) == ParseParams(text, 1, <<>>)


\* ------------------------------------------------------------------------
\* Morphology: extract_morphology and what it calls.  Strings are sequences
\* of characters.  The text after a section header is a sequence of items:
\* templates {{name|en|content}} and stretches of other text (name "text").
\* ------------------------------------------------------------------------

StartsWith(s, c) == s # <<>> /\ Head(s) = c
EndsWith(s, c) == s # <<>> /\ s[Len(s)] = c
ContainsStr(s, pat) == Find(s, pat, 1) # 0

\* str::replace
RECURSIVE ReplaceAll(_, _, _)
ReplaceAll(s, pat, rep) ==
    LET i == Find(s, pat, 1)
    IN IF i = 0 THEN s
       ELSE SubSeq(s, 1, i - 1) \o rep
                \o ReplaceAll(SubSeq(s, i + Len(pat), Len(s)), pat, rep)

\* The pieces of s between the occurrences of the character c
RECURSIVE SplitOn(_, _)
SplitOn(s, c) ==
    LET i == Find(s, <<c>>, 1)
    IN IF i = 0 THEN <<s>>
       ELSE <<SubSeq(s, 1, i - 1)>> \o SplitOn(SubSeq(s, i + 1, Len(s)), c)

\* The first index >= from of a character of stops, Len(s) + 1 if none
RunEnd(s, from, stops) ==
    LET hits == { i \in from..Len(s) : s[i] \in stops }
    IN IF hits = {} THEN Len(s) + 1 ELSE CHOOSE i \in hits : \A j \in hits : i <= j

\* WIKILINK_PATTERN \[\[([^\]|]+)(?:\|[^\]]+)?\]\] matched at position i
WikilinkMatch(s, i) ==
    LET j == RunEnd(s, i + 2, {"]", "|"})
        k == RunEnd(s, j + 1, {"]"})
        none == [ok |-> FALSE, target |-> <<>>, end |-> i]
    IN IF Peek(s, i, 2) # <<"[", "[">> \/ j = i + 2 THEN none
       ELSE IF Peek(s, j, 2) = <<"]", "]">>
       THEN [ok |-> TRUE, target |-> SubSeq(s, i + 2, j - 1), end |-> j + 1]
       ELSE IF j <= Len(s) /\ s[j] = "|" /\ k > j + 1
               /\ Peek(s, k, 2) = <<"]", "]">>
       THEN [ok |-> TRUE, target |-> SubSeq(s, i + 2, j - 1), end |-> k + 1]
       ELSE none

\* WIKILINK_PATTERN.replace_all(s, "$1")
RECURSIVE ReplaceWikilinks(_, _)
ReplaceWikilinks(s, i) ==
    IF i > Len(s) THEN <<>>
    ELSE LET m == WikilinkMatch(s, i)
         IN IF m.ok THEN m.target \o ReplaceWikilinks(s, m.end + 1)
            ELSE <<s[i]>> \o ReplaceWikilinks(s, i + 1)

StripWikilinks(s) ==
    IF ContainsStr(s, <<"[", "[">>) \/ ContainsStr(s, <<"]", "]">>)
    THEN ReplaceAll(ReplaceWikilinks(s, 1), <<"]", "]">>, <<>>)
    ELSE s

AsciiLetters ==
    {"a", "b", "c", "d", "e", "f", "g", "h", "i", "j", "k", "l", "m", "n", "o",
     "p", "q", "r", "s", "t", "u", "v", "w", "x", "y", "z",
     "A", "B", "C", "D", "E", "F", "G", "H", "I", "J", "K", "L", "M", "N", "O",
     "P", "Q", "R", "S", "T", "U", "V", "W", "X", "Y", "Z"}

\* LANG_CODE_PREFIX (?i)^[a-z]{2,4}:
LangCodePrefix(s) ==
    \E n \in 2..4 :
        /\ Len(s) > n
        /\ \A i \in 1..n : s[i] \in AsciiLetters
        /\ s[n + 1] = ":"

\* tag_pattern <[^>]+> removed everywhere
RECURSIVE StripTags(_, _)
StripTags(s, i) ==
    IF i > Len(s) THEN <<>>
    ELSE LET k == RunEnd(s, i + 1, {">"})
         IN IF s[i] = "<" /\ k > i + 1 /\ k <= Len(s)
            THEN StripTags(s, k + 1)
            ELSE <<s[i]>> \o StripTags(s, i + 1)

DecodeEntities(s) ==
    ReplaceAll(ReplaceAll(ReplaceAll(s, <<"&", "l", "t", ";">>, <<"<">>),
                          <<"&", "g", "t", ";">>, <<">">>),
               <<"&", "a", "m", "p", ";">>, <<"&">>)

\* The closure of the filter_map of clean_template_components
CleanPart(part) ==
    LET p0 == Trim(part)
        p1 == DecodeEntities(p0)
        p2 == IF ContainsStr(p1, <<"<">>) \/ ContainsStr(p1, <<">">>)
              THEN StripTags(p1, 1) ELSE p1
    IN IF p0 = <<>> \/ ContainsStr(p0, <<"=">>) THEN NoneString
       ELSE IF LangCodePrefix(p0) THEN NoneString
       ELSE IF p2 = <<>> THEN NoneString
       ELSE Some(p2)

RECURSIVE CleanTemplateComponents(_)
CleanTemplateComponents(parts) ==
    IF parts = <<>> THEN <<>>
    ELSE LET c == CleanPart(Head(parts))
         IN (IF c.some THEN <<c.val>> ELSE <<>>)
                \o CleanTemplateComponents(Tail(parts))

Hyphen == "-"

ClassifyMorphology(components, etymology_template) ==
    LET prefixes == SelectSeq(components,
                        LAMBDA c : ~StartsWith(c, Hyphen) /\ EndsWith(c, Hyphen))
        suffixes == SelectSeq(components,
                        LAMBDA c : StartsWith(c, Hyphen) /\ ~EndsWith(c, Hyphen))
        interfixes == SelectSeq(components,
                        LAMBDA c : StartsWith(c, Hyphen) /\ EndsWith(c, Hyphen))
        bases == SelectSeq(components,
                        LAMBDA c : ~StartsWith(c, Hyphen) /\ ~EndsWith(c, Hyphen))
        has_prefix == prefixes # <<>>
        has_suffix == suffixes # <<>>
        morph_type == IF has_prefix /\ has_suffix THEN "affixed"
                      ELSE IF has_prefix THEN "prefixed"
                      ELSE IF has_suffix THEN "suffixed"
                      ELSE IF Len(bases) >= 2 THEN "compound"
                      ELSE "simple"
        is_compound == morph_type = "compound"
    IN [morph_type |-> morph_type,
        base |-> IF ~is_compound /\ bases # <<>> THEN Some(Head(bases))
                 ELSE NoneString,
        components |-> components,
        prefixes |-> prefixes,
        suffixes |-> suffixes,
        interfixes |-> interfixes,
        is_compound |-> is_compound,
        etymology_template |-> etymology_template]

NameChars(n) ==
    CASE n = "suffix" -> <<"s", "u", "f", "f", "i", "x">>
      [] n = "prefix" -> <<"p", "r", "e", "f", "i", "x">>
      [] n = "confix" -> <<"c", "o", "n", "f", "i", "x">>
      [] n = "compound" -> <<"c", "o", "m", "p", "o", "u", "n", "d">>
      [] n = "affix" -> <<"a", "f", "f", "i", "x">>
      [] n = "af" -> <<"a", "f">>
      [] n = "surf" -> <<"s", "u", "r", "f">>
      [] OTHER -> <<>>

\* The text of a template up to and including the capture
TemplateText(name, captured) ==
    <<"{", "{">> \o NameChars(name) \o <<"|", "e", "n", "|">> \o captured
        \o <<"}", "}">>

\* ([^}|]+)\|([^}|]+)...\}\} after "{{name|en|": the groups, if between lo
\* and hi groups stand before the closing braces
FixedCapture(content, lo, hi) ==
    LET full == content \o <<"}", "}">>
        i == Find(full, <<"}">>, 1)
        head == SubSeq(full, 1, i - 1)
        groups == SplitOn(head, "|")
    IN [ok |-> /\ full[i + 1] = "}"
               /\ Len(groups) >= lo /\ Len(groups) <= hi
               /\ \A g \in DOMAIN groups : groups[g] # <<>>,
        groups |-> groups,
        all |-> head]

\* ([^}]+)\}\} after "{{name|en|"
VarCapture(content) ==
    LET full == content \o <<"}", "}">>
        i == Find(full, <<"}">>, 1)
    IN [ok |-> i > 1 /\ full[i + 1] = "}", all |-> SubSeq(full, 1, i - 1)]

SuffixMatches(t) == t.name = "suffix" /\ FixedCapture(t.content, 2, 3).ok
PrefixMatches(t) == t.name = "prefix" /\ FixedCapture(t.content, 2, 3).ok
ConfixMatches(t) == t.name = "confix" /\ FixedCapture(t.content, 3, 4).ok
CompoundMatches(t) == t.name = "compound" /\ VarCapture(t.content).ok
AffixMatches(t) == t.name \in {"af", "affix"} /\ VarCapture(t.content).ok
SurfMatches(t) == t.name = "surf" /\ VarCapture(t.content).ok

\* The pattern of a shape matches the template t
TemplateMatches(shape, t) ==
    CASE shape = "suffix" -> SuffixMatches(t)
      [] shape = "prefix" -> PrefixMatches(t)
      [] shape = "confix" -> ConfixMatches(t)
      [] shape = "compound" -> CompoundMatches(t)
      [] shape = "affix" -> AffixMatches(t)
      [] OTHER -> SurfMatches(t)

\* The least index of a set of indices, 0 if there is none
FirstIndex(hits) ==
    IF hits = {} THEN 0 ELSE CHOOSE i \in hits : \A j \in hits : i <= j

\* Regex::captures: the first item the pattern of the shape matches, 0 if
\* none
FirstMatch(items, shape) ==
    FirstIndex({ i \in DOMAIN items : TemplateMatches(shape, items[i]) })

\* The hyphen added whether or not one stands there
WithLeadingHyphenAlways(c) == <<Hyphen>> \o c

WithLeadingHyphen(c) == IF StartsWith(c, Hyphen) THEN c ELSE <<Hyphen>> \o c
WithTrailingHyphen(c) == IF EndsWith(c, Hyphen) THEN c ELSE c \o <<Hyphen>>

Slot(t, k) == StripWikilinks(Trim(FixedCapture(t.content, 0, 4).groups[k]))

NoComponents == [some |-> FALSE, components |-> <<>>, template |-> <<>>]
SomeComponents(cs, tpl) == [some |-> TRUE, components |-> cs, template |-> tpl]

\* if components.len() >= 2 { return Some((components, cap[0])) }
UsableComponents(components, tpl) ==
    IF Len(components) >= 2 THEN SomeComponents(components, tpl) ELSE NoComponents

\* One round of the loop over COMPOUND_TEMPLATE, AFFIX_TEMPLATE,
\* SURF_TEMPLATE
VariableShape(items, shape) ==
    LET i == FirstMatch(items, shape)
    IN IF i = 0 THEN NoComponents
       ELSE UsableComponents(
                CleanTemplateComponents(
                    ParseTemplateParams(VarCapture(items[i].content).all)),
                TemplateText(items[i].name, VarCapture(items[i].content).all))

\* for template_re in [&*COMPOUND_TEMPLATE, &*AFFIX_TEMPLATE, &*SURF_TEMPLATE]
RECURSIVE VariableShapes(_, _)
RECURSIVE ReturnOrGoOn(_, _, _)
ReturnOrGoOn(r, items, shapes) ==
    IF r.some THEN r ELSE VariableShapes(items, shapes)

VariableShapes(items, shapes) ==
    IF shapes = <<>> THEN NoComponents
    ELSE ReturnOrGoOn(VariableShape(items, Head(shapes)), items, Tail(shapes))

\* The suffix template at index s of the text
FromSuffix(etymology_text, s) ==
    LET t == etymology_text[s]
    IN SomeComponents(<<Slot(t, 1), WithLeadingHyphen(Slot(t, 2))>>,
                      TemplateText(t.name, FixedCapture(t.content, 0, 4).all))

\* The prefix template at index p of the text
FromPrefix(etymology_text, p) ==
    LET t == etymology_text[p]
    IN SomeComponents(<<WithTrailingHyphen(Slot(t, 1)), Slot(t, 2)>>,
                      TemplateText(t.name, FixedCapture(t.content, 0, 4).all))

\* The confix template at index x of the text
FromConfix(etymology_text, x) ==
    LET t == etymology_text[x]
    IN SomeComponents(<<WithTrailingHyphen(Slot(t, 1)), Slot(t, 2),
                        WithLeadingHyphen(Slot(t, 3))>>,
                      TemplateText(t.name, FixedCapture(t.content, 0, 4).all))

\* The result of the fixed-arity shapes, given what the loop over the
\* variable-arity shapes returns
FixedShapesOr(etymology_text, variable) ==
    LET s == FirstMatch(etymology_text, "suffix")
        p == FirstMatch(etymology_text, "prefix")
        x == FirstMatch(etymology_text, "confix")
    IN IF s # 0 THEN FromSuffix(etymology_text, s)
       ELSE IF p # 0 THEN FromPrefix(etymology_text, p)
       ELSE IF x # 0 THEN FromConfix(etymology_text, x)
       ELSE variable

\* The shapes in another order: compound, affix and surf before the
\* fixed-arity templates
ChooseShapeVariableFirst(etymology_text, variable) ==
    IF variable.some THEN variable
    ELSE FixedShapesOr(etymology_text, NoComponents)

\* The order of the attempts: suffix, prefix, confix, then the loop
ChooseShape(etymology_text, variable) == FixedShapesOr(etymology_text, variable)

ExtractMorphologyComponents(etymology_text) ==
    ChooseShape(etymology_text,
                VariableShapes(etymology_text, <<"compound", "affix", "surf">>))

Lower(c) ==
    CASE c = "A" -> "a" [] c = "C" -> "c" [] c = "F" -> "f" [] c = "I" -> "i"
      [] c = "N" -> "n" [] c = "O" -> "o" [] c = "X" -> "x" [] OTHER -> c
ToLowercase(s) == [i \in DOMAIN s |-> Lower(s[i])]

\* ETYMOLOGY_SECTION ===+\s*Etymology\s*\d*\s*===+\s*\n(.+) cut at the
\* first NEXT_SECTION \n===.  sections: [etym, body] in page order.  The
\* capture starts at the first character that is not white space after
\* the header line: in the body, or in the next header if the body is
\* empty.
EtymologyText(sections) ==
    LET i == FirstIndex({ j \in DOMAIN sections : sections[j].etym })
    IN IF i = 0 THEN [some |-> FALSE, val |-> <<>>]
       ELSE IF sections[i].body # <<>> THEN [some |-> TRUE, val |-> sections[i].body]
       ELSE IF i < Len(sections) THEN [some |-> TRUE, val |-> sections[i + 1].body]
       ELSE [some |-> FALSE, val |-> <<>>]

NoMorphology == [some |-> FALSE, val |-> <<>>]

\* extract_morphology after the `?` on extract_morphology_components
BuildMorphology(r) ==
    IF ~r.some THEN NoMorphology
    ELSE IF ContainsStr(ToLowercase(r.template), NameChars("confix"))
    THEN [some |-> TRUE,
          val |-> [morph_type |-> "circumfixed",
                   base |-> IF Len(r.components) >= 2
                            THEN Some(r.components[2]) ELSE NoneString,
                   components |-> r.components,
                   prefixes |-> <<IF r.components # <<>> THEN r.components[1]
                                  ELSE <<>> >>,
                   suffixes |-> IF Len(r.components) >= 3
                                THEN <<r.components[3]>> ELSE <<>>,
                   interfixes |-> <<>>,
                   is_compound |-> FALSE,
                   etymology_template |-> r.template]]
    ELSE [some |-> TRUE, val |-> ClassifyMorphology(r.components, r.template)]

ExtractMorphology(sections) ==
    LET e == EtymologyText(sections)
    IN IF ~e.some THEN NoMorphology
       ELSE BuildMorphology(ExtractMorphologyComponents(e.val))

\* ------------------------------------------------------------------------
\* Labels: extract_labels_from_line.  A definition line is a sequence of
\* templates {{name|en|content}}; tags are strings, compared as str::cmp
\* compares them, byte by byte.
\* ------------------------------------------------------------------------

\* The byte of a character of the labels and tags
Code(c) ==
    CASE c = " " -> 32 [] c = "-" -> 45 [] c = "A" -> 65 [] c = "C" -> 67
      [] c = "a" -> 97 [] c = "c" -> 99 [] c = "n" -> 110 [] c = "x" -> 120
      [] OTHER -> 127

\* s < t for strings
RECURSIVE StrLess(_, _)
StrLess(s, t) ==
    IF t = <<>> THEN FALSE
    ELSE IF s = <<>> THEN TRUE
    ELSE IF Head(s) = Head(t) THEN StrLess(Tail(s), Tail(t))
    ELSE Code(Head(s)) < Code(Head(t))

\* The vocabularies init_labels has loaded: a label may stand in several,
\* and two region labels may share a region code
RegisterLabels == { <<"a">>, <<"c", "a">> }
TemporalLabels == { <<"a">>, <<"c">> }
DomainLabels == { <<"c">>, <<"a", "c">> }
RegionLabels ==
    [l \in { <<"n">>, <<"n", "a">>, <<"n", "n">> } |->
        IF l = <<"n", "n">> THEN <<"a", "-", "C">> ELSE <<"c", "-", "A">>]

NoTags == [register |-> {}, region |-> {}, domain |-> {}, temporal |-> {}]
NoLabels == [register |-> <<>>, region |-> <<>>, domain |-> <<>>, temporal |-> <<>>]

\* The body of the loop over the labels of one template
InsertLabel(tags, raw) ==
    LET label == ToLowercase(Trim(raw))
    IN IF label \in RegisterLabels
       THEN [tags EXCEPT !.register = @ \cup {label}]
       ELSE IF label \in TemporalLabels
       THEN [tags EXCEPT !.temporal = @ \cup {label}]
       ELSE IF label \in DomainLabels
       THEN [tags EXCEPT !.domain = @ \cup {label}]
       ELSE IF label \in DOMAIN RegionLabels
       THEN [tags EXCEPT !.region = @ \cup {RegionLabels[label]}]
       ELSE tags

RECURSIVE InsertLabels(_, _)
InsertLabels(tags, raws) ==
    IF raws = <<>> THEN tags
    ELSE InsertLabels(InsertLabel(tags, Head(raws)), Tail(raws))

\* CONTEXT_LABEL (?i)\{\{(?:lb|label|context)\|en\|([^}]+)\}\}
ContextLabelMatches(t) ==
    t.name \in {"lb", "label", "context"} /\ VarCapture(t.content).ok

\* for cap in CONTEXT_LABEL.captures_iter(line)
RECURSIVE ScanLabels(_, _)
ScanLabels(tags, line) ==
    IF line = <<>> THEN tags
    ELSE IF ContextLabelMatches(Head(line))
    THEN ScanLabels(InsertLabels(tags, SplitOn(VarCapture(Head(line).content).all, "|")),
                    Tail(line))
    ELSE ScanLabels(tags, Tail(line))

\* The elements of the set the other way round
RECURSIVE SortTagsDescending(_)
SortTagsDescending(tags) ==
    IF tags = {} THEN <<>>
    ELSE LET m == CHOOSE x \in tags : \A y \in tags : x = y \/ StrLess(y, x)
         IN <<m>> \o SortTagsDescending(tags \ {m})

\* into_iter().collect() of a HashSet, then sort()
RECURSIVE SortTags(_)
SortTags(tags) ==
    IF tags = {} THEN <<>>
    ELSE LET m == CHOOSE x \in tags : \A y \in tags : x = y \/ StrLess(x, y)
         IN <<m>> \o SortTags(tags \ {m})

ExtractLabelsFromLine(line) ==
    LET tags == ScanLabels(NoTags, line)
    IN [register |-> SortTags(tags.register),
        region |-> SortTags(tags.region),
        domain |-> SortTags(tags.domain),
        temporal |-> SortTags(tags.temporal)]

\* ------------------------------------------------------------------------
\* State
\* ------------------------------------------------------------------------
VARIABLES
    input,          \* the page fragments of the input stream, in order
    strategy,       \* Args.strategy
    limit,          \* Args.limit (None or N)
    failAt,         \* the first writeln! that fails (0: none)
    readFail,       \* pages yielded before reader.read fails (None: never)
    readErr,        \* a reader.read call has returned Err
    pos,            \* pages the splitter has yielded so far (page_id)
    stats,          \* the Stats accumulator of the running strategy
    out,            \* the records on the output stream
    nwrites,        \* writeln! calls so far
    limit_reached,  \* Cell (sequential) / AtomicBool (channel pipeline)
    mainPc,         \* position of the thread driving the strategy
    ret,            \* "none", "ok" (Ok(stats)) or "err"
    batch,          \* process_batch_parallel: the pages of the open batch
    results,        \* process_two_phase: results not yet written
    pageQ,          \* channel of (page_id, xml), page ids
    resultQ,        \* channel of ProcessedPage
    pending,        \* the reorder buffer
    next_expected,  \* next page_id to write
    prodPc,         \* position of read_pages_to_channel
    chunkLeft,      \* complete pages left in the chunk last read
    wpc,            \* position of each process_pages_worker
    wres,           \* the result a worker is about to send
    lock,           \* holder of the Mutex around the page receiver (0: free)
    max_buffer_size,\* largest size the reorder buffer has had
    writeLog,       \* history: ids of the pages counted, in counting order
    stream,         \* scan_pages: the bytes of the reader
    rpos,           \* bytes read so far
    buffer,         \* the String buffer
    pagesOut,       \* the fragments handed to the callback, in order
    splitPc,        \* "idle", "read", "done" (Ok) or "panic"
    content,        \* parse_template_params: the text to parse
    params,         \* the Vec<String> it returns
    parsePc,        \* "idle", "ready" (called) or "done" (returned)
    english_text,   \* extract_morphology: the sections of the text
    morphology,     \* the Option<Morphology> it returns
    morphPc,        \* "idle", "ready" (called) or "done" (returned)
    def_line,       \* extract_labels_from_line: the definition line
    labels,         \* the four tag lists it returns
    labelPc,        \* "idle", "ready" (called) or "done" (returned)
    syllable_text,  \* parse_page: the items of the text the signals stand in
    syllables,      \* the Option<usize> of WordData.syllables
    sylPc,          \* "idle", "ready" (called) or "done" (computed)
    token,          \* is_englishlike: the token
    englishlike,    \* the bool it returns
    tokenPc,        \* "idle", "ready" (called) or "done" (returned)
    page_text,      \* parse_page: the lines of the English section
    entries,        \* the Vec<Entry> it returns (pos and tags of each)
    pagePc          \* "idle", "ready" (called) or "done" (returned)

splitVars == <<stream, rpos, buffer, pagesOut, splitPc>>
\* what no action of a strategy changes: its configuration, the splitter
parseVars == <<content, params, parsePc>>
\* the state of the functions called on one page or one string
morphVars == <<english_text, morphology, morphPc>>
labelVars == <<def_line, labels, labelPc>>
sylVars == <<syllable_text, syllables, sylPc>>
tokenVars == <<token, englishlike, tokenPc>>
entryVars == <<page_text, entries, pagePc>>
pageVars == <<morphVars, labelVars, sylVars, tokenVars, entryVars>>
pureVars == <<parseVars, pageVars>>
cfgVars == <<input, strategy, limit, failAt, readFail, splitVars, pureVars>>
sinkVars == <<stats, out, nwrites, writeLog>>
chanVars == <<pageQ, resultQ, pending, next_expected, prodPc, chunkLeft,
              wpc, wres, lock, max_buffer_size>>
vars == <<input, strategy, limit, failAt, readFail, readErr, pos, stats, out, nwrites,
          limit_reached, mainPc, ret, batch, results, pageQ, resultQ, pending,
          next_expected, prodPc, chunkLeft, wpc, wres, lock, max_buffer_size,
          writeLog, stream, rpos, buffer, pagesOut, splitPc, pureVars>>
\* the state of the strategies
strategyVars == <<input, strategy, limit, failAt, readFail, readErr, pos,
                  sinkVars, limit_reached, mainPc, ret, batch, results, chanVars>>

Strategies == {"sequential", "batch", "channel", "twophase"}
Workers == 1..NumWorkers
\* Page kinds that differ for the parallel strategies: not extracted,
\* rejected by process_raw_page, parsed into 0..MaxEntries entries
ChannelKinds ==
    { GoodPage(k) : k \in 0..MaxEntries } \cup
    { [GoodPage(1) EXCEPT !.ns = "14"],
      [GoodPage(0) EXCEPT !.english = FALSE] }

Inputs == Streams(PageKinds, MaxPages)
ChannelInputs == Streams(ChannelKinds, MaxPages)
Limits == {None} \cup 0..MaxLimit
\* reader.read fails after some number of pages, or never
ReadFails == {None} \cup 0..MaxPages
NoResult == Result(0 - 1, <<>>, FALSE, FALSE, FALSE, FALSE, FALSE)

CurSink == Sink(stats, out, nwrites, writeLog)

SetSink(sk) ==
    /\ stats' = sk.stats
    /\ out' = sk.out
    /\ nwrites' = sk.nwrites
    /\ writeLog' = sk.log

\* the pages the reader delivers
Readable == IF readFail = None THEN Len(input) ELSE readFail

\* the next reader.read returns Err
ReadFailsNow == readFail # None /\ pos = readFail

\* some writeln! has failed
Broken == failAt # 0 /\ nwrites >= failAt

SplitterIdle ==
    /\ stream = <<>>
    /\ rpos = 0
    /\ buffer = <<>>
    /\ pagesOut = <<>>
    /\ splitPc = "idle"

ParserIdle ==
    /\ content = <<>>
    /\ params = <<>>
    /\ parsePc = "idle"

MorphologyIdle ==
    /\ english_text = <<>>
    /\ morphology = NoMorphology
    /\ morphPc = "idle"

LabelsIdle ==
    /\ def_line = <<>>
    /\ labels = NoLabels
    /\ labelPc = "idle"

SyllablesIdle ==
    /\ syllable_text = <<>>
    /\ syllables = None
    /\ sylPc = "idle"

TokenIdle ==
    /\ token = <<>>
    /\ englishlike = FALSE
    /\ tokenPc = "idle"

EntriesIdle ==
    /\ page_text = <<>>
    /\ entries = <<>>
    /\ pagePc = "idle"

PageIdle ==
    MorphologyIdle /\ LabelsIdle /\ SyllablesIdle /\ TokenIdle /\ EntriesIdle
PureIdle == ParserIdle /\ PageIdle

\* The state in which a strategy starts on already split pages
StrategyStart ==
    /\ pos = 0
    /\ readErr = FALSE
    /\ stats = StatsDefault
    /\ out = <<>>
    /\ nwrites = 0
    /\ limit_reached = FALSE
    /\ mainPc = IF strategy = "none" THEN "done" ELSE "run"
    /\ ret = "none"
    /\ batch = <<>>
    /\ results = <<>>
    /\ pageQ = <<>>
    /\ resultQ = <<>>
    /\ pending = <<>>
    /\ next_expected = 0
    /\ prodPc = IF strategy = "channel" THEN "top" ELSE "done"
    /\ chunkLeft = 0
    /\ wpc = [w \in Workers |-> IF strategy = "channel" THEN "top" ELSE "done"]
    /\ wres = [w \in Workers |-> NoResult]
    /\ lock = 0
    /\ max_buffer_size = 0
    /\ writeLog = <<>>

InitWith(ins, strats, lims, fails, rfails) ==
    /\ input \in ins
    /\ strategy \in strats
    /\ limit \in lims
    /\ failAt \in fails
    /\ readFail \in { r \in rfails : r = None \/ r <= Len(input) }
    /\ StrategyStart
    /\ SplitterIdle
    /\ PureIdle

\* No strategy runs
StrategyIdle ==
    /\ input = <<>>
    /\ strategy = "none"
    /\ limit = None
    /\ failAt = 0
    /\ readFail = None
    /\ StrategyStart

Init == InitWith(Inputs, Strategies, Limits, 0..MaxFail, ReadFails)


\* ------------------------------------------------------------------------
\* Sequential strategy: run_sequential over scan_pages
\* ------------------------------------------------------------------------

\* scan_pages yields the next page and the callback runs on it
SeqPage ==
    /\ strategy = "sequential"
    /\ mainPc = "run"
    /\ IF ReadFailsNow
       THEN \* reader.read(&mut chunk)? in scan_pages, then "})?"
            /\ readErr' = TRUE
            /\ ret' = "err"
            /\ mainPc' = "done"
            /\ UNCHANGED <<pos, sinkVars, limit_reached>>
       ELSE /\ pos < Len(input)
            /\ LET c == SeqCallback(input[pos + 1], pos, CurSink, limit_reached,
                                    limit, failAt)
               IN /\ SetSink(c.sink)
                  /\ limit_reached' = c.lr
                  /\ mainPc' = IF c.cont THEN "run" ELSE "flush"
            /\ pos' = pos + 1
            /\ UNCHANGED <<readErr, ret>>
    /\ UNCHANGED <<cfgVars, batch, results, chanVars>>

\* scan_pages has returned; writer.flush()? and Ok(stats).  The flush of a
\* sink on which a write failed may fail again or succeed.
SeqFlush ==
    /\ strategy = "sequential"
    /\ \/ mainPc = "flush"
       \/ mainPc = "run" /\ pos = Len(input) /\ ~ReadFailsNow
    /\ \E ok \in (IF Broken THEN BOOLEAN ELSE {TRUE}) :
          ret' = IF ok THEN "ok" ELSE "err"
    /\ mainPc' = "done"
    /\ UNCHANGED <<cfgVars, readErr, pos, sinkVars, limit_reached, batch, results, chanVars>>

\* ------------------------------------------------------------------------
\* Batch-parallel strategy: process_batch_parallel
\* ------------------------------------------------------------------------

\* One page is extracted from the buffer and pushed to the batch; a full
\* batch is processed by process_batch_threaded and written.
BatchPage ==
    /\ strategy = "batch"
    /\ mainPc = "run"
    /\ IF ReadFailsNow
       THEN \* reader.read(&mut chunk)?: the open batch is abandoned
            /\ readErr' = TRUE
            /\ ret' = "err"
            /\ mainPc' = "done"
            /\ UNCHANGED <<pos, sinkVars, batch>>
       ELSE /\ pos < Len(input)
            /\ pos' = pos + 1
            /\ UNCHANGED readErr
            /\ LET b == Append(batch, input[pos + 1])
               IN IF Len(b) >= BatchSize
                  THEN LET rs == ProcessBatchThreaded(b, pos + 1 - Len(b), NumThreads)
                           w == WriteResults(rs, CurSink, limit, failAt)
                       IN /\ batch' = <<>>
                          /\ SetSink(w.sink)
                          /\ mainPc' = IF w.res = "more" THEN "run" ELSE "done"
                          /\ ret' = CASE w.res = "more" -> ret
                                      [] w.res = "limit" -> "ok"
                                      [] w.res = "err" -> "err"
                  ELSE /\ batch' = b
                       /\ UNCHANGED <<sinkVars, mainPc, ret>>
    /\ UNCHANGED <<cfgVars, limit_reached, results, chanVars>>

\* End of input: the remaining batch is processed and written (without a
\* limit check), then writer.flush()?
BatchRest ==
    /\ strategy = "batch"
    /\ mainPc = "run"
    /\ pos = Len(input)
    /\ ~ReadFailsNow
    /\ LET rs == ProcessBatchThreaded(batch, pos - Len(batch), NumThreads)
           w == WriteResults(rs, CurSink, None, failAt)
       IN /\ SetSink(w.sink)
          /\ ret' = IF w.res = "err" THEN "err" ELSE "ok"
    /\ mainPc' = "done"
    /\ UNCHANGED <<cfgVars, readErr, pos, limit_reached, batch, results, chanVars>>

\* ------------------------------------------------------------------------
\* Two-phase strategy: process_two_phase
\* ------------------------------------------------------------------------

\* Phase 1 and 2: read_all_pages, then process_all_pages_parallel
TwoPhaseRead ==
    /\ strategy = "twophase"
    /\ mainPc = "run"
    /\ IF readFail # None
       THEN \* read_all_pages(reader)?
            /\ pos' = readFail
            /\ readErr' = TRUE
            /\ ret' = "err"
            /\ mainPc' = "done"
            /\ UNCHANGED results
       ELSE /\ pos' = Len(input)
            /\ results' = ProcessAllPagesParallel(input, NumThreads)
            /\ mainPc' = "write"
            /\ UNCHANGED <<readErr, ret>>
    /\ UNCHANGED <<cfgVars, sinkVars, limit_reached, batch, chanVars>>

\* Phase 3: one iteration of "for result in results"
TwoPhaseWrite ==
    /\ strategy = "twophase"
    /\ mainPc = "write"
    /\ results # <<>>
    /\ LET w == WriteResult(Head(results), CurSink, limit, failAt)
       IN /\ SetSink(w.sink)
          /\ mainPc' = IF w.res = "more" THEN "write" ELSE "done"
          /\ ret' = CASE w.res = "more" -> ret
                      [] w.res = "limit" -> "ok"
                      [] w.res = "err" -> "err"
    /\ results' = Tail(results)
    /\ UNCHANGED <<cfgVars, readErr, pos, limit_reached, batch, chanVars>>

\* writer.flush()? and Ok(stats)
TwoPhaseFlush ==
    /\ strategy = "twophase"
    /\ mainPc = "write"
    /\ results = <<>>
    /\ mainPc' = "done"
    /\ ret' = "ok"
    /\ UNCHANGED <<cfgVars, readErr, pos, sinkVars, limit_reached, batch, results, chanVars>>


\* ------------------------------------------------------------------------
\* Channel-pipeline strategy: process_channel_pipeline
\* ------------------------------------------------------------------------

AllWorkersDone == \A w \in Workers : wpc[w] = "done"

\* The page receiver lives in an Arc held by process_channel_pipeline and
\* by every worker: it is dropped when all of them have returned.
PageRxAlive == mainPc # "done" \/ ~AllWorkersDone

\* The result receiver is owned by write_results_sorted
ResultRxAlive == mainPc = "run"

\* read_pages_to_channel, top of the loop: the flag is polled, then a chunk
\* is read; k complete pages become available in the buffer.
ProducerRead ==
    /\ prodPc = "top"
    /\ IF limit_reached
       THEN /\ prodPc' = "done"
            /\ UNCHANGED <<chunkLeft, readErr>>
       ELSE IF ReadFailsNow
       THEN \* reader.read(&mut chunk)?: Err is the thread's result, which
            \* reader_handle.join().ok() drops; page_tx is dropped
            /\ prodPc' = "done"
            /\ readErr' = TRUE
            /\ UNCHANGED chunkLeft
       ELSE IF pos = Len(input)
       THEN /\ prodPc' = "done"
            /\ UNCHANGED <<chunkLeft, readErr>>
       ELSE \E k \in 1..(Readable - pos) :
               /\ chunkLeft' = k
               /\ prodPc' = "send"
               /\ UNCHANGED readErr
    /\ UNCHANGED <<cfgVars, pos, sinkVars, limit_reached, mainPc, ret, batch,
                   results, pageQ, resultQ, pending, next_expected, wpc, wres, lock,
                   max_buffer_size>>

\* A channel that takes whatever is sent
HasRoomAlways(queue) == TRUE

\* sync_channel(config.channel_buffer): a send goes through when fewer
\* than channel_buffer items are queued
HasRoom(queue) == Len(queue) < ChannelBuffer

\* tx.send((page_id, page_xml)): blocks while the queue is full, fails
\* when the receiver is gone
ProducerSend ==
    /\ prodPc = "send"
    /\ IF ~PageRxAlive
       THEN /\ prodPc' = "done"
            /\ UNCHANGED <<pos, pageQ, chunkLeft>>
       ELSE /\ HasRoom(pageQ)
            /\ pageQ' = Append(pageQ, pos)
            /\ pos' = pos + 1
            /\ chunkLeft' = chunkLeft - 1
            /\ prodPc' = IF chunkLeft = 1 THEN "top" ELSE "send"
    /\ UNCHANGED <<cfgVars, readErr, sinkVars, limit_reached, mainPc, ret, batch,
                   results, resultQ, pending, next_expected, wpc, wres, lock,
                   max_buffer_size>>

\* process_pages_worker, top of the loop: the flag is polled
WorkerTop(w) ==
    /\ wpc[w] = "top"
    /\ wpc' = [wpc EXCEPT ![w] = IF limit_reached THEN "done" ELSE "lock"]
    /\ UNCHANGED <<cfgVars, readErr, pos, sinkVars, limit_reached, mainPc, ret, batch,
                   results, pageQ, resultQ, pending, next_expected, prodPc,
                   chunkLeft, wres, lock, max_buffer_size>>

\* rx.lock()
WorkerLock(w) ==
    /\ wpc[w] = "lock"
    /\ lock = 0
    /\ lock' = w
    /\ wpc' = [wpc EXCEPT ![w] = "recv"]
    /\ UNCHANGED <<cfgVars, readErr, pos, sinkVars, limit_reached, mainPc, ret, batch,
                   results, pageQ, resultQ, pending, next_expected, prodPc,
                   chunkLeft, wres, max_buffer_size>>

\* guard.recv() under the lock, then extract_pages_from_xml and
\* process_raw_page; a page that is not extracted sends nothing
WorkerRecv(w) ==
    /\ wpc[w] = "recv"
    /\ IF pageQ # <<>>
       THEN LET id == Head(pageQ)
                p == input[id + 1]
            IN /\ pageQ' = Tail(pageQ)
               /\ IF ExtractOk(p)
                  THEN /\ wres' = [wres EXCEPT ![w] = ProcessRawPage(p, id)]
                       /\ wpc' = [wpc EXCEPT ![w] = "send"]
                  ELSE /\ wpc' = [wpc EXCEPT ![w] = "top"]
                       /\ UNCHANGED wres
       ELSE /\ prodPc = "done"
            /\ wpc' = [wpc EXCEPT ![w] = "done"]
            /\ UNCHANGED <<pageQ, wres>>
    /\ lock' = 0
    /\ UNCHANGED <<cfgVars, readErr, pos, sinkVars, limit_reached, mainPc, ret, batch,
                   results, resultQ, pending, next_expected, prodPc, chunkLeft,
                   max_buffer_size>>

\* tx.send(result)
WorkerSend(w) ==
    /\ wpc[w] = "send"
    /\ IF ~ResultRxAlive
       THEN /\ wpc' = [wpc EXCEPT ![w] = "done"]
            /\ UNCHANGED resultQ
       ELSE /\ HasRoom(resultQ)
            /\ resultQ' = Append(resultQ, wres[w])
            /\ wpc' = [wpc EXCEPT ![w] = "top"]
    /\ wres' = [wres EXCEPT ![w] = NoResult]
    /\ UNCHANGED <<cfgVars, readErr, pos, sinkVars, limit_reached, mainPc, ret, batch,
                   results, pageQ, pending, next_expected, prodPc, chunkLeft, lock,
                   max_buffer_size>>

\* How write_results_sorted leaves its loops: on "limit" the flag is set
\* and Ok(stats) returned to process_channel_pipeline, which joins the
\* threads; on "err" the error is returned at once.
ConsumerLeaves(res) ==
    /\ limit_reached' = (limit_reached \/ res = "limit")
    /\ mainPc' = CASE res = "more" -> mainPc
                   [] res = "limit" -> "join"
                   [] res = "err" -> "done"
    /\ ret' = IF res = "err" THEN "err" ELSE ret

\* write_results_sorted: one iteration of "for result in rx"
ConsumerRecv ==
    /\ strategy = "channel"
    /\ mainPc = "run"
    /\ resultQ # <<>>
    /\ LET c == OnResult(Head(resultQ), pending, next_expected, CurSink, limit, failAt)
       IN /\ SetSink(c.sink)
          /\ pending' = c.pending
          /\ next_expected' = c.next
          /\ max_buffer_size' = Max(max_buffer_size, Cardinality(DOMAIN c.pending))
          /\ ConsumerLeaves(c.res)
    /\ resultQ' = Tail(resultQ)
    /\ UNCHANGED <<cfgVars, readErr, pos, batch, results, pageQ, prodPc, chunkLeft,
                   wpc, wres, lock>>

\* write_results_sorted: the result channel is closed (every worker has
\* returned); the remaining buffered results are drained and the writer
\* flushed
ConsumerClose ==
    /\ strategy = "channel"
    /\ mainPc = "run"
    /\ resultQ = <<>>
    /\ AllWorkersDone
    /\ LET c == DrainRest(pending, CurSink, limit, failAt)
       IN /\ SetSink(c.sink)
          /\ pending' = c.pending
          /\ limit_reached' = (limit_reached \/ c.res = "limit")
          /\ mainPc' = IF c.res = "err" THEN "done" ELSE "join"
          /\ ret' = IF c.res = "err" THEN "err" ELSE ret
    /\ UNCHANGED <<cfgVars, readErr, pos, batch, results, pageQ, resultQ, next_expected,
                   prodPc, chunkLeft, wpc, wres, lock,
                   max_buffer_size>>

\* process_channel_pipeline: reader_handle.join() and the workers' joins
\* have returned; Ok(stats)
MainJoin ==
    /\ strategy = "channel"
    /\ mainPc = "join"
    /\ prodPc = "done"
    /\ AllWorkersDone
    /\ mainPc' = "done"
    /\ ret' = "ok"
    /\ UNCHANGED <<cfgVars, readErr, pos, sinkVars, limit_reached, batch, results, chanVars>>

Next ==
    \/ SeqPage
    \/ SeqFlush
    \/ BatchPage
    \/ BatchRest
    \/ TwoPhaseRead
    \/ TwoPhaseWrite
    \/ TwoPhaseFlush
    \/ ProducerRead
    \/ ProducerSend
    \/ \E w \in Workers : WorkerTop(w)
    \/ \E w \in Workers : WorkerLock(w)
    \/ \E w \in Workers : WorkerRecv(w)
    \/ \E w \in Workers : WorkerSend(w)
    \/ ConsumerRecv
    \/ ConsumerClose
    \/ MainJoin

Spec == Init /\ [][Next]_vars

\* Runs on a working output stream, over the page kinds that differ for
\* the channel pipeline
InitLimit == InitWith(ChannelInputs, Strategies, Limits, {0}, {None})

SpecLimit == InitLimit /\ [][Next]_vars


\* ------------------------------------------------------------------------
\* Properties of the strategies
\* ------------------------------------------------------------------------

StrictlyIncreasing(q) == \A i, j \in DOMAIN q : i < j => q[i] < q[j]

\* The records of a stream are in page order, the senses of a page in
\* sense order
RecordsInOrder(o) ==
    \A i, j \in DOMAIN o :
        i < j => \/ o[i].page < o[j].page
                 \/ o[i].page = o[j].page /\ o[i].sense < o[j].sense

\* C1: in the channel pipeline the page ids of the results the consumer
\* writes are strictly increasing, and so the records on the output stream
\* are in input page order, under every interleaving.
C1_ChannelOutputOrdered ==
    strategy = "channel" => StrictlyIncreasing(writeLog) /\ RecordsInOrder(out)

\* A channel run that returned Ok after writing a result for every page
\* of a full-length input, having buffered a result that arrived ahead of
\* its turn.
C1_Witness ==
    /\ strategy = "channel"
    /\ ret = "ok"
    /\ Len(input) = MaxPages
    /\ Len(writeLog) = MaxPages
    /\ max_buffer_size >= 1


\* run_sequential as a function of the input: scan_pages feeds the pages
\* from the i-th on to the callback until it returns false
RECURSIVE SeqRunFrom(_, _, _, _, _, _)
SeqRunFrom(ins, i, sk, lr, lim, fa) ==
    IF i >= Len(ins) THEN sk
    ELSE LET c == SeqCallback(ins[i + 1], i, sk, lr, lim, fa)
         IN IF c.cont THEN SeqRunFrom(ins, i + 1, c.sink, c.lr, lim, fa)
            ELSE c.sink

EmptySink == Sink(StatsDefault, <<>>, 0, <<>>)

\* What the Sequential strategy leaves for an input, without limit
SeqRun(ins) == SeqRunFrom(ins, 0, EmptySink, FALSE, None, 0)

Finished == mainPc = "done" /\ ret = "ok"
Unlimited == limit = None /\ failAt = 0 /\ readFail = None

\* C2: for the same input and no output limit, every strategy writes the
\* records the Sequential strategy writes, in the same order.
C2_SameRecords ==
    (Finished /\ Unlimited) => out = SeqRun(input).out

\* C3: for the same input and no output limit, every strategy finishes
\* with the Stats counters the Sequential strategy finishes with.
C3_SameStats ==
    (Finished /\ Unlimited) => stats = SeqRun(input).stats

\* The pages (1-based positions) that carry a redirect marker and pass the
\* checks that precede the redirect check
RedirectPages(ins) ==
    { i \in DOMAIN ins :
        /\ ins[i].hasTitle /\ ~NsNotMain(ins[i]) /\ ~HasSpecialPrefix(ins[i])
        /\ RedirectInXml(ins[i]) }

\* C4: in every strategy a page with a redirect marker yields no entry and
\* increments the redirect counter, and no other rejection counter.
C4_RedirectCounted ==
    (Finished /\ Unlimited) =>
        /\ stats.redirects = Cardinality(RedirectPages(input))
        /\ \A k \in DOMAIN out : (out[k].page + 1) \notin RedirectPages(input)
        /\ RedirectPages(input) = DOMAIN input =>
              /\ stats.skipped = 0 /\ stats.special = 0 /\ stats.non_english = 0
              /\ stats.dict_only = 0 /\ stats.non_latin = 0
              /\ stats.words_written = 0

\* C5: under the Sequential strategy with an output limit N >= 0 on an
\* input that produces at least N records, exactly N records are written
\* and the page that produced the N-th record is the last one counted.
C5_SequentialExactLimit ==
    (/\ strategy = "sequential" /\ mainPc = "done"
     /\ failAt = 0 /\ readFail = None /\ limit # None
     /\ Len(SeqRun(input).out) >= limit) =>
        /\ Len(out) = limit
        /\ limit >= 1 => stats.pages_processed = out[limit].page + 1

RECURSIVE SumEntries(_)
SumEntries(rs) ==
    IF rs = <<>> THEN 0 ELSE Len(Head(rs).entries) + SumEntries(Tail(rs))

\* The records of the pages lo..hi (1-based positions) under
\* extract_pages_from_xml and process_raw_page
RecordsOf(ins, lo, hi) == SumEntries(ProcessChunk(SubSeq(ins, lo, hi), lo - 1))

\* The records of the unit (the batch of the batch-parallel strategy, the
\* page of the others) that the page with the given id belongs to
UnitRecords(id) ==
    IF strategy = "batch"
    THEN LET b == id \div BatchSize
         IN RecordsOf(input, b * BatchSize + 1, Min((b + 1) * BatchSize, Len(input)))
    ELSE RecordsOf(input, id + 1, id + 1)

WriterDone == mainPc \in {"join", "done"} /\ ret # "err"

Verdict(p, id) ==
    IF ~p.hasTitle THEN "skipped"
    ELSE IF NsNotMain(p) THEN "special"
    ELSE IF HasSpecialPrefix(p) THEN "special"
    ELSE IF RedirectInXml(p) THEN "redirects"
    ELSE IF ~p.hasText THEN "skipped"
    ELSE IF ~p.english THEN "non_english"
    ELSE IF p.dictOnly THEN "dict_only"
    ELSE IF ~p.latin THEN "non_latin"
    ELSE IF ParsePage(p, id) = <<>> THEN "skipped"
    ELSE "words_written"

\* C7: every page is decided by its first failing check in the fixed
\* order, which increments its counter; only pages passing all eight
\* checks reach extraction.
C7_FixedCheckOrder ==
    (Finished /\ Unlimited) =>
        /\ \A f \in {"skipped", "special", "redirects", "non_english",
                     "dict_only", "non_latin", "words_written"} :
              stats[f] = Cardinality({ i \in DOMAIN input :
                                         Verdict(input[i], i - 1) = f })
        /\ \A i \in DOMAIN input :
              (\E k \in DOMAIN out : out[k].page = i - 1)
                  <=> Verdict(input[i], i - 1) = "words_written"

InRange(q) == { q[i] : i \in DOMAIN q }

\* The page with this id is queued or being processed
InFlight(id) ==
    \/ id \in InRange(pageQ)
    \/ \E w \in Workers : wpc[w] = "send" /\ wres[w].page_id = id
    \/ \E i \in DOMAIN resultQ : resultQ[i].page_id = id

\* C8: a result is held in the reorder buffer only while a page with a
\* smaller id is still queued or being processed, and the buffer is empty
\* when the result channel closes.
C8_BufferOnlyWhileWaiting ==
    (strategy = "channel" /\ mainPc = "run") =>
        /\ \A k \in DOMAIN pending : \E j \in 0..(k - 1) : InFlight(j)
        /\ (resultQ = <<>> /\ AllWorkersDone) => DOMAIN pending = {}

\* C10: once a write to the output stream has failed, no further page is
\* counted and the run does not return Ok.
C10_WriteFailureAborts ==
    [][Broken => (stats' = stats /\ ret' # "ok")]_vars

\* C11: in every strategy a failed read of the input stream ends the run
\* with a reported error; the channel pipeline does not return Ok(stats)
\* over the pages read before the failure.
C11_ReadErrorReported ==
    (mainPc = "done" /\ readErr) => ret = "err"


\* ------------------------------------------------------------------------
\* The page splitter on a byte stream
\* ------------------------------------------------------------------------

\* One iteration of the loop of scan_pages: reader.read returns n bytes,
\* they are decoded and appended, the complete pages are extracted and the
\* buffer is trimmed
SplitRead ==
    /\ splitPc = "read"
    /\ rpos < Len(stream)
    /\ \E n \in 1..(Len(stream) - rpos) :
          LET chunk == SubSeq(stream, rpos + 1, rpos + n)
              x == ExtractPages(buffer \o FromUtf8Lossy(chunk), pagesOut)
              t == TrimBuffer(x.buffer)
          IN /\ rpos' = rpos + n
             /\ pagesOut' = x.pages
             /\ buffer' = t.buffer
             /\ splitPc' = IF t.panic THEN "panic" ELSE "read"
    /\ UNCHANGED <<strategyVars, pureVars, stream>>

\* reader.read returns 0: Ok(())
SplitEnd ==
    /\ splitPc = "read"
    /\ rpos = Len(stream)
    /\ splitPc' = "done"
    /\ UNCHANGED <<strategyVars, pureVars, stream, rpos, buffer, pagesOut>>

InitSplit ==
    /\ StrategyIdle
    /\ PureIdle
    /\ stream \in ByteStreams
    /\ rpos = 0
    /\ buffer = <<>>
    /\ pagesOut = <<>>
    /\ splitPc = "read"

NextSplit == SplitRead \/ SplitEnd

SpecSplit == InitSplit /\ [][NextSplit]_vars

\* The fragments of a stream read in a single chunk
WholeSplit(bs) == ExtractPages(FromUtf8Lossy(bs), <<>>).pages

\* C9: however the stream is divided into read chunks, the splitter yields
\* the fragments of the undivided stream, in order.
C9_ChunkIndependent ==
    splitPc = "done" => pagesOut = WholeSplit(stream)



\* ------------------------------------------------------------------------
\* parse_template_params on one parameter string
\* ------------------------------------------------------------------------

MaxTokens == 5

\* The pieces parameter strings are made of
ParamTokens ==
    { <<"[", "[">>, <<"]", "]">>, <<"{", "{">>, <<"}", "}">>,
      <<"|">>, <<"#">>, <<"a">>, <<"b">>, <<" ">> }

\* "en|[[isle|Isle]]|of|[[Man#Etymology 2|Man]]"
IsleOfMan ==
    <<"e", "n", "|", "[", "[", "i", "s", "l", "e", "|", "I", "s", "l", "e",
      "]", "]", "|", "o", "f", "|", "[", "[", "M", "a", "n", "#", "E", "t",
      "y", "m", "o", "l", "o", "g", "y", " ", "2", "|", "M", "a", "n", "]", "]">>

\* "foo|{{a|{{b|{{c|d}}}}}}|bar"
DeeplyNested ==
    <<"f", "o", "o", "|", "{", "{", "a", "|", "{", "{", "b", "|", "{", "{",
      "c", "|", "d", "}", "}", "}", "}", "}", "}", "|", "b", "a", "r">>

\* The texts parse_template_params is called on: up to MaxTokens pieces, and
\* the two examples
ParamInput(text) ==
    \/ \E ts \in Streams(ParamTokens, MaxTokens) : text = Concat(ts)
    \/ text \in {IsleOfMan, DeeplyNested}

\* parse_template_params(content)
CallParseTemplateParams ==
    /\ parsePc = "ready"
    /\ params' = ParseTemplateParams(content)
    /\ parsePc' = "done"
    /\ UNCHANGED <<strategyVars, splitVars, content, pageVars>>

InitParams ==
    /\ StrategyIdle
    /\ SplitterIdle
    /\ PageIdle
    /\ ParamInput(content)
    /\ params = <<>>
    /\ parsePc = "ready"

NextParams == CallParseTemplateParams

SpecParams == InitParams /\ [][NextParams]_vars


\* The grammar of the parameter strings, read off a text without the
\* parser: a scan that keeps the template depth and the body of the open
\* link and collects the text of the top-level parameters.  ok: brackets
\* are properly nested and no link contains a bracket; depth and inLink
\* tell what is still open at the end of the text.

IndexOf(s, c) ==
    IF \E i \in DOMAIN s : s[i] = c
    THEN CHOOSE i \in DOMAIN s : s[i] = c /\ \A j \in 1..(i - 1) : s[j] # c
    ELSE 0

\* display if present, else target
LinkText(body) ==
    IF IndexOf(body, "|") # 0
    THEN SubSeq(body, IndexOf(body, "|") + 1, Len(body))
    ELSE IF IndexOf(body, "#") # 0
    THEN SubSeq(body, 1, IndexOf(body, "#") - 1)
    ELSE body

ScanFailed ==
    [ok |-> FALSE, depth |-> 0, inLink |-> FALSE, body |-> <<>>, cur |-> <<>>,
     segs |-> <<>>]

RECURSIVE Scan(_, _, _, _, _, _, _)
Scan(text, i, depth, inLink, body, cur, segs) ==
    IF i > Len(text)
    THEN [ok |-> TRUE, depth |-> depth, inLink |-> inLink, body |-> body,
          cur |-> cur, segs |-> segs]
    ELSE LET two == Peek(text, i, 2)
             open == two \in {<<"[", "[">>, <<"{", "{">>}
             close == two \in {<<"]", "]">>, <<"}", "}">>}
         IN IF inLink
            THEN IF two = <<"]", "]">>
                 THEN Scan(text, i + 2, depth, FALSE, <<>>,
                           IF depth = 0 THEN cur \o LinkText(body) ELSE cur, segs)
                 ELSE IF open \/ close \/ text[i] = "]"
                 THEN ScanFailed
                 ELSE Scan(text, i + 1, depth, TRUE, Append(body, text[i]), cur, segs)
            ELSE IF two = <<"[", "[">>
            THEN Scan(text, i + 2, depth, TRUE, <<>>, cur, segs)
            ELSE IF two = <<"{", "{">>
            THEN Scan(text, i + 2, depth + 1, FALSE, <<>>, cur, segs)
            ELSE IF two = <<"}", "}">> /\ depth > 0
            THEN Scan(text, i + 2, depth - 1, FALSE, <<>>, cur, segs)
            ELSE IF close
            THEN ScanFailed
            ELSE IF depth > 0
            THEN Scan(text, i + 1, depth, FALSE, <<>>, cur, segs)
            ELSE IF text[i] = "|"
            THEN Scan(text, i + 1, 0, FALSE, <<>>, <<>>, Append(segs, cur))
            ELSE Scan(text, i + 1, 0, FALSE, <<>>, Append(cur, text[i]), segs)

ScanText(text) == Scan(text, 1, 0, FALSE, <<>>, <<>>, <<>>)

WellFormed(text) ==
    LET r == ScanText(text) IN r.ok /\ r.depth = 0 /\ ~r.inLink

TrimAll(segs) == [k \in DOMAIN segs |-> Trim(segs[k])]

\* The clean text of the top-level parameters of a well-formed text
TopLevelParams(text) ==
    LET r == ScanText(text) IN TrimAll(Append(r.segs, r.cur))

Contains(text, two) == \E i \in DOMAIN text : Peek(text, i, 2) = two

\* Every parameter returned is the text of the top-level parameter at its
\* place, and none is returned beyond them
ParamsAsGrammar ==
    /\ Len(params) <= Len(TopLevelParams(content))
    /\ \A k \in DOMAIN params : params[k] = TopLevelParams(content)[k]

\* C12: every well-formed wikilink [[target#anchor|display]] is replaced by
\* its display text if present and otherwise by its target, and no '|' or
\* '#' inside a wikilink starts a new parameter.
C12_WikilinkText ==
    (/\ parsePc = "done"
     /\ WellFormed(content)
     /\ ~Contains(content, <<"{", "{">>)) => ParamsAsGrammar

\* "en|[[isle|Isle]]|of|[[Man#Etymology 2|Man]]" gives en, Isle, of, Man
C12_Witness ==
    /\ parsePc = "done"
    /\ content = IsleOfMan
    /\ params = << <<"e", "n">>, <<"I", "s", "l", "e">>, <<"o", "f">>,
                   <<"M", "a", "n">> >>

\* C13: every well-formed nested template, at any depth and whatever links
\* or pipes it contains, contributes empty text to the enclosing parameter,
\* and no '|' inside it starts a new top-level parameter.
C13_TemplateDiscarded ==
    (/\ parsePc = "done"
     /\ WellFormed(content)
     /\ Contains(content, <<"{", "{">>)) => ParamsAsGrammar

\* "foo|{{a|{{b|{{c|d}}}}}}|bar" gives foo, "", bar
C13_Witness ==
    /\ parsePc = "done"
    /\ content = DeeplyNested
    /\ params = << <<"f", "o", "o">>, <<>>, <<"b", "a", "r">> >>


\* The text ends inside a top-level "[[" / inside a "{{"
OpenLink(text) ==
    LET r == ScanText(text) IN r.ok /\ r.depth = 0 /\ r.inLink
OpenTemplate(text) ==
    LET r == ScanText(text) IN r.ok /\ r.depth > 0

\* What is written of the target of a link before its end
PartialTarget(body) ==
    IF \E i \in DOMAIN body : body[i] \in {"#", "|"}
    THEN SubSeq(body, 1, (CHOOSE i \in DOMAIN body :
                             /\ body[i] \in {"#", "|"}
                             /\ \A j \in 1..(i - 1) : body[j] \notin {"#", "|"}) - 1)
    ELSE body

\* An unterminated "{{" adds nothing to the parameter it stands in, which
\* is the last one returned
OpenTemplateEmpty ==
    OpenTemplate(content) =>
        LET r == ScanText(content)
        IN params = TrimAll(Append(r.segs, r.cur))

\* C14 as stated: an unterminated "[[" contributes its partial target text
\* to the current parameter; an unterminated "{{" contributes empty text
\* and consumes the rest of the input.
C14_MalformedTarget ==
    parsePc = "done" =>
        /\ OpenLink(content) =>
              LET r == ScanText(content)
              IN params = TrimAll(Append(r.segs, r.cur \o PartialTarget(r.body)))
        /\ OpenTemplateEmpty

\* C14 amended: an unterminated "[[" contributes the text of the link as
\* far as it is written (the display part if a '|' follows the target,
\* else the target); an unterminated "{{" contributes empty text and
\* consumes the rest of the input.
C14_MalformedLinkText ==
    parsePc = "done" =>
        /\ OpenLink(content) =>
              LET r == ScanText(content)
              IN params = TrimAll(Append(r.segs, r.cur \o LinkText(r.body)))
        /\ OpenTemplateEmpty

\* "b[[a|b" gives bb: the text before the link and the partial display
C14_Witness ==
    /\ parsePc = "done"
    /\ content = <<"b", "[", "[", "a", "|", "b">>
    /\ params = << <<"b", "b">> >>


\* C15: the parameters follow params := param ("|" param)* with possibly
\* empty params: a non-empty input with k top-level pipes yields k + 1
\* parameters, the text between the pipes, wherever the pipes stand.
C15_PipesSeparate ==
    (parsePc = "done" /\ content # <<>> /\ WellFormed(content)) =>
        /\ Len(params) = Len(ScanText(content).segs) + 1
        /\ params = TopLevelParams(content)



\* ------------------------------------------------------------------------
\* extract_morphology on the text of one page
\* ------------------------------------------------------------------------

MaxArgs == 3
MaxSections == 2

\* What stands in the slots of the templates
Slots ==
    { <<"a">>, <<"b">>, <<"-", "b">>, <<"c", "-">>, <<"-", "d", "-">>,
      <<"c", "o", "n", "f", "i", "x">>, <<"[", "[", "a", "|", "b", "]", "]">>,
      <<"l", "=", "a">>, <<"l", "a", ":", "a">> }

TemplateNames == {"suffix", "prefix", "confix", "compound", "affix", "af", "surf"}

RECURSIVE Join(_)
Join(args) ==
    IF args = <<>> THEN <<>>
    ELSE IF Len(args) = 1 THEN Head(args)
    ELSE Head(args) \o <<"|">> \o Join(Tail(args))

Template(name, args) == [name |-> name, content |-> Join(args)]
OtherText == [name |-> "text", content |-> <<>>]

\* Templates with the slots their shape is written for, or too few
PlainTemplates ==
    { Template(n, args) :
        n \in TemplateNames,
        args \in { <<<<"a">>>>, <<<<"a">>, <<"b">>>>, <<<<"c", "-">>, <<"a">>>>,
                   <<<<"a">>, <<"a">>, <<"b">>>> } }

Section(etym, body) == [etym |-> etym, body |-> body]

Bodies == { <<>>, <<OtherText>>,
            <<Template("suffix", << <<"a">>, <<"b">> >>)>>,
            <<Template("compound", << <<"a">>, <<"b">> >>)>> }

\* The texts extract_morphology is called on: an etymology section with one
\* template of up to MaxArgs slots, or with two templates, or up to
\* MaxSections sections with and without an etymology header
MorphologyInput(sections) ==
    \/ \E args \in Streams(Slots, MaxArgs), n \in TemplateNames :
            sections = <<Section(TRUE, <<Template(n, args)>>)>>
    \/ \E t1, t2 \in PlainTemplates :
            sections = <<Section(TRUE, <<t1, t2>>)>>
    \/ sections \in Streams({ Section(e, b) : e \in BOOLEAN, b \in Bodies },
                            MaxSections)

\* extract_morphology(&english_text)
CallExtractMorphology ==
    /\ morphPc = "ready"
    /\ morphology' = ExtractMorphology(english_text)
    /\ morphPc' = "done"
    /\ UNCHANGED <<strategyVars, splitVars, parseVars, english_text, labelVars,
                   sylVars, tokenVars, entryVars>>

InitMorphology ==
    /\ StrategyIdle
    /\ SplitterIdle
    /\ ParserIdle
    /\ LabelsIdle
    /\ SyllablesIdle
    /\ TokenIdle
    /\ EntriesIdle
    /\ MorphologyInput(english_text)
    /\ morphology = NoMorphology
    /\ morphPc = "ready"

NextMorphology == CallExtractMorphology

SpecMorphology == InitMorphology /\ [][NextMorphology]_vars


\* c is one of the elements of the list s
Listed(c, s) == \E i \in DOMAIN s : s[i] = c

PrefixPattern(c) == ~StartsWith(c, Hyphen) /\ EndsWith(c, Hyphen)
SuffixPattern(c) == StartsWith(c, Hyphen) /\ ~EndsWith(c, Hyphen)

\* C16: for every Morphology returned by extract_morphology, whatever
\* template matched, a component is listed in prefixes iff it ends with but
\* does not start with '-', is listed in suffixes iff it starts with but does
\* not end with '-', and is_compound is true iff the kind is "compound".
C16_MorphologyInvariant ==
    (morphPc = "done" /\ morphology.some) =>
        LET m == morphology.val
        IN /\ \A i \in DOMAIN m.components :
                /\ Listed(m.components[i], m.prefixes)
                        <=> PrefixPattern(m.components[i])
                /\ Listed(m.components[i], m.suffixes)
                        <=> SuffixPattern(m.components[i])
           /\ m.is_compound <=> m.morph_type = "compound"

\* C17: extract_morphology never returns a Morphology of kind "simple".
C17_SimpleDiscarded ==
    (morphPc = "done" /\ morphology.some) => morphology.val.morph_type # "simple"


\* The six template shapes in the order extract_morphology_components
\* tries them
NumShapes == 6
FirstVariableShape == 4

ShapeMatches(k, t) ==
    CASE k = 1 -> SuffixMatches(t)
      [] k = 2 -> PrefixMatches(t)
      [] k = 3 -> ConfixMatches(t)
      [] k = 4 -> CompoundMatches(t)
      [] k = 5 -> AffixMatches(t)
      [] OTHER -> SurfMatches(t)

FirstOfShape(k, text) ==
    LET hits == { i \in DOMAIN text : ShapeMatches(k, text[i]) }
    IN IF hits = {} THEN 0 ELSE CHOOSE i \in hits : \A j \in hits : i <= j

\* A template of shape k occurs in the text
Present(k, text) == FirstOfShape(k, text) # 0

\* The whole text of the first template of shape k
TemplateOfShape(k, text) ==
    LET t == text[FirstOfShape(k, text)] IN TemplateText(t.name, t.content)

\* The first template of shape k gives a result: always for the fixed-arity
\* shapes, with two cleaned components or more for the others
Usable(k, text) ==
    /\ Present(k, text)
    /\ \/ k < FirstVariableShape
       \/ Len(CleanTemplateComponents(ParseTemplateParams(
                text[FirstOfShape(k, text)].content))) >= 2

\* The text extract_morphology searches, <<>> if there is none
Etymology == EtymologyText(english_text).val

\* C18 as stated: the first shape whose template occurs in the etymology
\* subsection decides the result, and no later shape is attempted even if
\* the matched template yields no usable result.
C18_FirstPresentShapeDecides ==
    morphPc = "done" =>
        \A k \in 1..NumShapes :
            (Present(k, Etymology) /\ \A j \in 1..(k - 1) : ~Present(j, Etymology))
                => /\ morphology.some <=> Usable(k, Etymology)
                   /\ morphology.some =>
                        morphology.val.etymology_template
                            = TemplateOfShape(k, Etymology)

\* C18 amended: the shapes are tried in the order suffix, prefix, circumfix,
\* compound, affix, surface-form, and the first shape whose first template
\* gives a result decides; a compound, affix or surface-form template with
\* fewer than two cleaned components is passed over and the next shape is
\* tried; there is no result iff no shape gives one.
C18_FirstUsableShapeDecides ==
    morphPc = "done" =>
        /\ \A k \in 1..NumShapes :
              (Usable(k, Etymology) /\ \A j \in 1..(k - 1) : ~Usable(j, Etymology))
                  => /\ morphology.some
                     /\ morphology.val.etymology_template
                            = TemplateOfShape(k, Etymology)
        /\ (\A k \in 1..NumShapes : ~Usable(k, Etymology)) => ~morphology.some

\* A compound template with one component is passed over and the affix
\* template after it decides
C18_Witness ==
    /\ morphPc = "done"
    /\ Present(4, Etymology) /\ ~Usable(4, Etymology)
    /\ Usable(5, Etymology)
    /\ \A j \in 1..3 : ~Present(j, Etymology)
    /\ morphology.some
    /\ morphology.val.etymology_template = TemplateOfShape(5, Etymology)

\* The slots that hold no pipe: one slot is one capture group
WholeSlots == { a \in Slots : ~ContainsStr(a, <<"|">>) }

\* The only template of the etymology subsection is {{name|en|x|y}}
OnlyTemplate(name, x, y) ==
    english_text = <<Section(TRUE, <<Template(name, <<x, y>>)>>)>>

NoHyphenAtEnds(c) == ~StartsWith(c, Hyphen) /\ ~EndsWith(c, Hyphen)
Confix == NameChars("confix")

MaxLabels == 3

\* What stands between the pipes of a label template
LabelSlots ==
    { <<"a">>, <<"c", "a">>, <<"c">>, <<"a", "c">>, <<"n">>, <<"n", "a">>,
      <<"n", "n">>, <<" ", "A", " ">>, <<"x">> }

LabelTemplateNames == {"lb", "label", "context", "text"}

\* The lines extract_labels_from_line is called on: one template with up to
\* MaxLabels labels, or a label template and a second template with a
\* single label
LabelInput(line) ==
    \E args \in Streams(LabelSlots, MaxLabels) :
        \/ \E n \in LabelTemplateNames : line = <<Template(n, args)>>
        \/ \E a \in LabelSlots :
                line = <<Template("lb", args), Template("label", <<a>>)>>

\* extract_labels_from_line(def_line)
CallExtractLabelsFromLine ==
    /\ labelPc = "ready"
    /\ labels' = ExtractLabelsFromLine(def_line)
    /\ labelPc' = "done"
    /\ UNCHANGED <<strategyVars, splitVars, parseVars, morphVars, def_line,
                   sylVars, tokenVars, entryVars>>

InitLabels ==
    /\ StrategyIdle
    /\ SplitterIdle
    /\ ParserIdle
    /\ MorphologyIdle
    /\ SyllablesIdle
    /\ TokenIdle
    /\ EntriesIdle
    /\ LabelInput(def_line)
    /\ labels = NoLabels
    /\ labelPc = "ready"

NextLabels == CallExtractLabelsFromLine

SpecLabels == InitLabels /\ [][NextLabels]_vars

Range(q) == { q[i] : i \in DOMAIN q }

\* The labels of the line: what stands between the pipes of its label
\* templates, trimmed and in lower case
LineLabels ==
    UNION { { ToLowercase(Trim(raw)) : raw \in Range(SplitOn(def_line[i].content, "|")) } :
                i \in { j \in DOMAIN def_line : ContextLabelMatches(def_line[j]) } }

Recognised ==
    RegisterLabels \cup TemporalLabels \cup DomainLabels \cup DOMAIN RegionLabels

Ascending(q) == \A i, j \in DOMAIN q : i < j => StrLess(q[i], q[j])

\* C20: each of the four tag lists extract_labels_from_line returns is
\* duplicate-free and in ascending lexicographic order, holds only tags
\* derived from labels of the line that a vocabulary recognises, and a
\* label no vocabulary recognises adds nothing to any list.
C20_TagListsSortedRecognised ==
    labelPc = "done" =>
        /\ \A f \in {"register", "region", "domain", "temporal"} :
                Ascending(labels[f])
        /\ Range(labels.register) \subseteq LineLabels \cap RegisterLabels
        /\ Range(labels.temporal) \subseteq LineLabels \cap TemporalLabels
        /\ Range(labels.domain) \subseteq LineLabels \cap DomainLabels
        /\ Range(labels.region)
                \subseteq { RegionLabels[l] : l \in LineLabels \cap DOMAIN RegionLabels }
        /\ Len(labels.register) + Len(labels.region) + Len(labels.domain)
                + Len(labels.temporal) <= Cardinality(LineLabels \cap Recognised)

\* Three region labels with two region codes between them and a label no
\* vocabulary knows: two region tags, sorted, nothing else
C20_Witness ==
    /\ labelPc = "done"
    /\ Cardinality(LineLabels \cap DOMAIN RegionLabels) = 3
    /\ LineLabels \ Recognised # {}
    /\ labels = [NoLabels EXCEPT !.region = << <<"a", "-", "C">>, <<"c", "-", "A">> >>]


\* The template that decided the result is the confix template
ConfixDecided ==
    /\ Present(3, Etymology)
    /\ morphology.val.etymology_template = TemplateOfShape(3, Etymology)

\* C29: extract_morphology returns kind "circumfixed" iff the template that
\* matched is the confix template; a suffix, prefix, compound, affix or
\* surface-form template never yields "circumfixed", whatever its slots hold.
C29_CircumfixedIffConfix ==
    (morphPc = "done" /\ morphology.some) =>
        (morphology.val.morph_type = "circumfixed" <=> ConfixDecided)


\* ------------------------------------------------------------------------
\* Syllables: the four signals parse_page consults.  The text is a sequence
\* of items: templates {{name|en|content}}, category links
\* [[Category:English content-syllable words]] (name "category") and
\* stretches of other text.  An Option<usize> is None or the number.
\* In the transcriptions "I" stands for U+026A, "@" for U+0259 (two bytes
\* each in UTF-8), ":" for the length mark U+02D0 and "_" for the
\* combining syllabic marker U+0329.
\* ------------------------------------------------------------------------

AsciiDigits == {"0", "1", "2", "3"}
\* A decimal digit outside ASCII (U+0663): \d matches it, str::parse
\* does not read it
ArabicDigit == "U+0663"
Digits == AsciiDigits \cup {ArabicDigit}

DigitValue(c) == CASE c = "1" -> 1 [] c = "2" -> 2 [] c = "3" -> 3 [] OTHER -> 0

RECURSIVE DecimalValue(_)
DecimalValue(ds) ==
    IF ds = <<>> THEN 0
    ELSE 10 * DecimalValue(SubSeq(ds, 1, Len(ds) - 1)) + DigitValue(ds[Len(ds)])

\* cap[1].parse::<usize>().ok() on a run of \d (the runs of the model are
\* too short to overflow usize)
ParseUsize(ds) ==
    IF \E i \in DOMAIN ds : ds[i] \notin AsciiDigits THEN None
    ELSE DecimalValue(ds)

\* (\d+) at position from: the longest run of digits
DigitRun(s, from) == SubSeq(s, from, RunEnd(s, from, Range(s) \ Digits) - 1)

\* RHYMES_SYLLABLE (?i)\{\{rhymes\|en\|[^}]*\|s=(\d+): the greedy [^}]*
\* leaves the last "|s=" that a digit follows
RhymesCapture(t) ==
    LET head == VarCapture(t.content).all
        hits == { i \in DOMAIN head :
                    /\ Peek(head, i, 3) = <<"|", "s", "=">>
                    /\ i + 3 <= Len(head)
                    /\ head[i + 3] \in Digits }
    IN IF t.name # "rhymes" \/ hits = {} THEN [ok |-> FALSE, digits |-> <<>>]
       ELSE [ok |-> TRUE,
             digits |-> DigitRun(head, 3 + CHOOSE i \in hits : \A j \in hits : j <= i)]

ExtractSyllableCountFromRhymes(text) ==
    LET i == FirstIndex({ j \in DOMAIN text : RhymesCapture(text[j]).ok })
    IN IF i = 0 THEN None ELSE ParseUsize(RhymesCapture(text[i]).digits)

\* SYLLABLE_CATEGORY (?i)\[\[Category:English\s+(\d+)-syllable\s+words?\]\]
CategoryMatches(t) ==
    /\ t.name = "category"
    /\ t.content # <<>>
    /\ \A i \in DOMAIN t.content : t.content[i] \in Digits

ExtractSyllableCountFromCategories(text) ==
    LET i == FirstIndex({ j \in DOMAIN text : CategoryMatches(text[j]) })
    IN IF i = 0 THEN None ELSE ParseUsize(text[i].content)

IpaVowels == {"a", "I", "@"}
Offglides == {"I", "@"}
IpaModifiers == {":"}
SyllabicMarker == "_"

\* The inner loop of count_syllables_from_ipa: the index after the
\* modifiers and the one off-glide that follow a vowel
RECURSIVE SkipOffglides(_, _, _)
SkipOffglides(chars, i, vowel_skipped) ==
    IF i > Len(chars) THEN i
    ELSE IF chars[i] \in IpaModifiers THEN SkipOffglides(chars, i + 1, vowel_skipped)
    ELSE IF ~vowel_skipped /\ chars[i] \in Offglides
    THEN SkipOffglides(chars, i + 1, TRUE)
    ELSE i

RECURSIVE CountSyllablesFrom(_, _, _)
CountSyllablesFrom(chars, i, count) ==
    IF i > Len(chars) THEN count
    ELSE IF i + 1 <= Len(chars) /\ chars[i + 1] = SyllabicMarker
    THEN CountSyllablesFrom(chars, i + 2, count + 1)
    ELSE IF chars[i] \in IpaVowels
    THEN CountSyllablesFrom(chars, SkipOffglides(chars, i + 1, FALSE), count + 1)
    ELSE CountSyllablesFrom(chars, i + 1, count)

CountSyllablesFromIpa(ipa) == CountSyllablesFrom(ipa, 1, 0)

\* IPA_TEMPLATE (?i)\{\{IPA\|en\|([^}]+)\}\}
IpaMatches(t) == t.name = "IPA" /\ VarCapture(t.content).ok

\* IPA_TRANSCRIPTION [/\[]([^/\[\]]+)[/\]]: the leftmost match
IpaTranscription(template_content) ==
    LET stops == {"/", "[", "]"}
        hits == { i \in DOMAIN template_content :
                    /\ template_content[i] \in {"/", "["}
                    /\ RunEnd(template_content, i + 1, stops) > i + 1
                    /\ RunEnd(template_content, i + 1, stops) <= Len(template_content)
                    /\ template_content[RunEnd(template_content, i + 1, stops)]
                            \in {"/", "]"} }
    IN IF hits = {} THEN NoneString
       ELSE Some(SubSeq(template_content, FirstIndex(hits) + 1,
                        RunEnd(template_content, FirstIndex(hits) + 1, stops) - 1))

\* The largest count extract_syllable_count_from_ipa lets through
MaxPlausible == 15

PlausibleCount(count) == IF count = 0 \/ count > MaxPlausible THEN None ELSE count

ExtractSyllableCountFromIpa(text) ==
    LET i == FirstIndex({ j \in DOMAIN text : IpaMatches(text[j]) })
    IN IF i = 0 THEN None
       ELSE IF ~IpaTranscription(VarCapture(text[i].content).all).some THEN None
       ELSE PlausibleCount(CountSyllablesFromIpa(
                IpaTranscription(VarCapture(text[i].content).all).val))

\* HYPHENATION_TEMPLATE (?i)\{\{(?:hyphenation|hyph)\|en\|([^}]+)\}\}
HyphenationMatches(t) ==
    t.name \in {"hyphenation", "hyph"} /\ VarCapture(t.content).ok

\* content.split("||").next()
FirstAlternative(captured) ==
    IF Find(captured, <<"|", "|">>, 1) = 0 THEN captured
    ELSE SubSeq(captured, 1, Find(captured, <<"|", "|">>, 1) - 1)

IsSyllablePart(part) == part # <<>> /\ ~ContainsStr(part, <<"=">>)

\* The parts that are neither empty nor parameters, trimmed
SyllableParts(first_alt) == SelectSeq(TrimAll(SplitOn(first_alt, "|")), IsSyllablePart)

Utf8Len(c) == IF c \in {"I", "@"} THEN 2 ELSE 1

\* str::len: the length in bytes
RECURSIVE ByteLen(_)
ByteLen(s) == IF s = <<>> THEN 0 ELSE Utf8Len(Head(s)) + ByteLen(Tail(s))

\* A single part longer than this is taken for an unseparated word
LongPart == 3

CountParts(parts) ==
    IF Len(parts) = 1 /\ ByteLen(parts[1]) > LongPart THEN None
    ELSE IF parts = <<>> THEN None
    ELSE Len(parts)

ExtractSyllableCountFromHyphenation(text) ==
    LET i == FirstIndex({ j \in DOMAIN text : HyphenationMatches(text[j]) })
    IN IF i = 0 THEN None
       ELSE CountParts(SyllableParts(FirstAlternative(VarCapture(text[i].content).all)))

\* Option::or_else
OrElse(a, b) == IF a # None THEN a ELSE b

\* The signals the other way round: hyphenation first, rhymes last
PageSyllablesReversed(text) ==
    OrElse(ExtractSyllableCountFromHyphenation(text),
        OrElse(ExtractSyllableCountFromCategories(text),
            OrElse(ExtractSyllableCountFromIpa(text),
                   ExtractSyllableCountFromRhymes(text))))

\* parse_page: let syllables = rhymes.or_else(ipa).or_else(categories)
\* .or_else(hyphenation); every entry of the page carries this value
PageSyllables(text) ==
    OrElse(ExtractSyllableCountFromRhymes(text),
        OrElse(ExtractSyllableCountFromIpa(text),
            OrElse(ExtractSyllableCountFromCategories(text),
                   ExtractSyllableCountFromHyphenation(text))))


\* ------------------------------------------------------------------------
\* The syllable count of one page
\* ------------------------------------------------------------------------

MaxItems == 4

Category(digits) == [name |-> "category", content |-> digits]

\* "/aaaaaaaaaaaaaaaa/": sixteen vowels
SixteenVowels == <<"/">> \o [i \in 1..16 |-> "a"] \o <<"/">>

\* The items of the texts: for each signal an item that gives a count, an
\* item that gives the count 0 or an implausible one, and an item the
\* pattern matches without a count coming of it
SignalItems ==
    { Template("rhymes", << <<"a">>, <<"s", "=", "0">> >>),
      Template("rhymes", << <<"s", "=", "2">>, <<"s", "=", "1">> >>),
      Template("rhymes", << <<"a">>, <<"s", "=", ArabicDigit>> >>),
      Template("IPA", << <<"/", "t", "a", ":", "I", "a", "/">> >>),
      Template("IPA", << <<"[", "t", "]">> >>),
      Template("IPA", <<SixteenVowels>>),
      Category(<<"0">>),
      Category(<<"3">>),
      Template("hyph", << <<"a">>, <<" ", "b">>, <<>>, <<"c">> >>),
      Template("hyphenation", << <<"a", "@", "b">>, <<"l", "=", "a">> >>),
      Template("hyph", << <<"a", "b", "c">> >>) }

\* The texts the signals are looked for in: up to MaxItems items
SyllableInput(text) == text \in Streams(SignalItems, MaxItems)

\* parse_page, lines 1396 to 1400
CallPageSyllables ==
    /\ sylPc = "ready"
    /\ syllables' = PageSyllables(syllable_text)
    /\ sylPc' = "done"
    /\ UNCHANGED <<strategyVars, splitVars, parseVars, morphVars, labelVars,
                   syllable_text, tokenVars, entryVars>>

InitSyllables ==
    /\ StrategyIdle
    /\ SplitterIdle
    /\ ParserIdle
    /\ MorphologyIdle
    /\ LabelsIdle
    /\ TokenIdle
    /\ EntriesIdle
    /\ SyllableInput(syllable_text)
    /\ syllables = None
    /\ sylPc = "ready"

NextSyllables == CallPageSyllables

SpecSyllables == InitSyllables /\ [][NextSyllables]_vars

\* What each signal gives, in the order of their priority
Signals ==
    <<ExtractSyllableCountFromRhymes(syllable_text),
      ExtractSyllableCountFromIpa(syllable_text),
      ExtractSyllableCountFromCategories(syllable_text),
      ExtractSyllableCountFromHyphenation(syllable_text)>>

\* C21: the syllable count of a page is what the first signal that gives a
\* count gives, in the order rhyme annotation, phonetic transcription,
\* N-syllable category, hyphenation template; a signal is used only when
\* every signal before it gives nothing, and there is no count iff none
\* gives one.
C21_FirstSignalWins ==
    sylPc = "done" =>
        /\ \A k \in DOMAIN Signals :
                (Signals[k] # None /\ \A j \in 1..(k - 1) : Signals[j] = None)
                    => syllables = Signals[k]
        /\ (\A k \in DOMAIN Signals : Signals[k] = None) => syllables = None

\* The rhymes, IPA and category items of the text give nothing and the
\* hyphenation template gives the count; in another text the rhymes
\* annotation wins over three other counts
C21_Witness ==
    /\ sylPc = "done"
    /\ \E j \in DOMAIN syllable_text : RhymesCapture(syllable_text[j]).ok
    /\ \E j \in DOMAIN syllable_text : IpaMatches(syllable_text[j])
    /\ Signals[1] = None /\ Signals[2] = None /\ Signals[3] = None
    /\ Signals[4] = 2
    /\ syllables = 2

\* C30: a syllable count parse_page gives to the entries of a page is at
\* least 1, whichever signal it comes from.
C30_CountAtLeastOne ==
    (sylPc = "done" /\ syllables # None) => syllables >= 1


\* ------------------------------------------------------------------------
\* The queues and the counters of the strategies
\* ------------------------------------------------------------------------

\* C25: in the channel pipeline the page queue and the result queue never
\* hold more items than the configured capacity; a producer or worker whose
\* queue is full waits at its send, and the item it holds is neither
\* dropped nor put over another one.
C25_QueuesBounded ==
    /\ [](Len(pageQ) <= ChannelBuffer /\ Len(resultQ) <= ChannelBuffer)
    /\ [][/\ (prodPc = "send" /\ PageRxAlive /\ ~HasRoom(pageQ))
                => (prodPc' = "send" /\ pos' = pos /\ chunkLeft' = chunkLeft
                        /\ (pageQ' = pageQ \/ pageQ' = Tail(pageQ)))
          /\ \A w \in Workers :
                (wpc[w] = "send" /\ ResultRxAlive /\ ~HasRoom(resultQ))
                    => \/ wpc'[w] = "send" /\ wres'[w] = wres[w]
                             /\ (resultQ' = resultQ \/ resultQ' = Tail(resultQ))
                       \/ ~ResultRxAlive']_vars

\* The page queue is full and the producer waits with the next page
C25_Witness ==
    /\ strategy = "channel"
    /\ Len(pageQ) = ChannelBuffer /\ prodPc = "send" /\ PageRxAlive
    /\ pos < Len(input)

\* The outcome counters of a Stats
Outcomes(st) ==
    st.special + st.redirects + st.non_english + st.dict_only + st.non_latin
        + st.skipped + st.words_written

\* C27: in every strategy, after any number of pages, as long as the run
\* has not failed, every counted page has incremented exactly one outcome
\* counter: pages_processed = special + redirects + non_english + dict_only
\* + non_latin + skipped + words_written, and senses_written >=
\* words_written.
C27_CountersAddUp ==
    ret # "err" =>
        /\ stats.pages_processed = Outcomes(stats)
        /\ stats.senses_written >= stats.words_written

\* A run that has counted a page with two senses and a page without a
\* record
C27_Witness ==
    /\ ret = "ok"
    /\ stats.pages_processed = 2
    /\ stats.words_written = 1
    /\ stats.senses_written = 2
    /\ stats.dict_only = 1

\* Where the page with this id and its result are: in the page queue, with
\* a worker, in the result queue, in the reorder buffer, taken for writing
Queued(id) == Cardinality({ i \in DOMAIN pageQ : pageQ[i] = id })
Held(id) == Cardinality({ w \in Workers : wres[w].page_id = id })
Sent(id) == Cardinality({ i \in DOMAIN resultQ : resultQ[i].page_id = id })
Buffered(id) == IF id \in DOMAIN pending THEN 1 ELSE 0
Written(id) == Cardinality({ i \in DOMAIN writeLog : writeLog[i] = id })

Downstream(id) == Held(id) + Sent(id) + Buffered(id) + Written(id)

\* C28: in the channel pipeline without an output limit and with a working
\* output stream, under every interleaving, a page the producer has sent
\* is in the page queue or was taken by one worker, the result of a page
\* a worker has processed is at exactly one place (with the worker, in the
\* result queue, in the reorder buffer or written), and when the run
\* returns every page read was taken and every result written exactly
\* once, none left in the buffer.
C28_ExactlyOnce ==
    (strategy = "channel" /\ limit = None /\ failAt = 0) =>
        /\ \A id \in 0..(Len(input) - 1) :
              /\ Queued(id) + Downstream(id) <= 1
              /\ id >= pos => Queued(id) + Downstream(id) = 0
              /\ (id < pos /\ ExtractOk(input[id + 1]))
                    => Queued(id) + Downstream(id) = 1
              /\ (id < pos /\ ~ExtractOk(input[id + 1])) => Downstream(id) = 0
        /\ Finished =>
              /\ pos = Readable
              /\ \A id \in 0..(pos - 1) :
                    Written(id) = IF ExtractOk(input[id + 1]) THEN 1 ELSE 0
              /\ DOMAIN pending = {}

\* A finished run in which the worker dropped the first page and the
\* result of the second waited in the reorder buffer until the drain after
\* the channel closed wrote it
C28_Witness ==
    /\ strategy = "channel" /\ limit = None /\ failAt = 0
    /\ Finished
    /\ pos = 2
    /\ max_buffer_size = 1
    /\ Written(1) = 1
    /\ ~ExtractOk(input[1])

\* ------------------------------------------------------------------------
\* Termination of the channel pipeline.  Every thread that can take a step
\* is scheduled in the end: the reader thread, each worker thread and the
\* main thread (write_results_sorted and the joins) are weakly fair.
\* ------------------------------------------------------------------------

\* Pages a worker sends a result for, and pages it drops
PipelineKinds == { GoodPage(1), [GoodPage(1) EXCEPT !.ns = "14"] }

\* Inputs long enough for the reader to wait at a full page queue while a
\* page is with a worker
PipelineInputs == Streams(PipelineKinds, ChannelBuffer + 2)

InitPipeline == InitWith(PipelineInputs, {"channel"}, Limits, {0}, {None})

ReaderStep == ProducerRead \/ ProducerSend
WorkerStep(w) == WorkerTop(w) \/ WorkerLock(w) \/ WorkerRecv(w) \/ WorkerSend(w)
MainStep == ConsumerRecv \/ ConsumerClose \/ MainJoin

NextPipeline == ReaderStep \/ (\E w \in Workers : WorkerStep(w)) \/ MainStep

SpecPipelineFair ==
    /\ InitPipeline
    /\ [][NextPipeline]_vars
    /\ WF_vars(ReaderStep)
    /\ \A w \in Workers : WF_vars(WorkerStep(w))
    /\ WF_vars(MainStep)

\* process_channel_pipeline has returned and its threads have exited
PipelineOver == mainPc = "done" /\ prodPc = "done" /\ AllWorkersDone

MaxChars == 3

\* U+0338 combining long solidus overlay, U+226E not less-than, U+226F not
\* greater-than, U+00E9 e with acute, U+044F Cyrillic ya, U+2019 right
\* single quotation mark, U+1F600 an emoji, U+00D7 multiplication sign
TokenChars ==
    { "a", "1", " ", "TAB", "&", ";", "<", ">", "-", "U+0338", "U+226E", "U+00E9",
      "U+044F", "U+2019", "U+1F600", "U+00D7" }

\* char::is_ascii
IsAscii(ch) == ch \in {"a", "1", " ", "TAB", "&", ";", "<", ">", "-"}
\* char::is_whitespace
IsWhitespace(ch) == ch \in {" ", "TAB"}
\* char::is_alphabetic
IsAlphabetic(ch) == ch \in {"a", "U+00E9", "U+044F"}

\* ch as u32
CodePoint(ch) ==
    CASE ch = "U+00D7" -> 215 [] ch = "U+00E9" -> 233 [] ch = "U+0338" -> 824
      [] ch = "U+044F" -> 1103 [] ch = "U+2019" -> 8217 [] ch = "U+226E" -> 8814
      [] ch = "U+226F" -> 8815 [] ch = "U+1F600" -> 128512 [] OTHER -> 0

\* The canonical composition of a starter and the mark after it, the
\* starter itself if there is none
Compose(starter, mark) ==
    IF starter = "<" /\ mark = "U+0338" THEN "U+226E"
    ELSE IF starter = ">" /\ mark = "U+0338" THEN "U+226F"
    ELSE starter

\* token.nfc().collect(): U+0338 is the only mark of the alphabet, so the
\* marks need no reordering; a mark is composed with the character before
\* it when Unicode has the composite
RECURSIVE Nfc(_, _)
Nfc(done, rest) ==
    IF rest = <<>> THEN done
    ELSE IF done # <<>> /\ Compose(done[Len(done)], Head(rest)) # done[Len(done)]
    THEN Nfc(SubSeq(done, 1, Len(done) - 1)
                \o <<Compose(done[Len(done)], Head(rest))>>, Tail(rest))
    ELSE Nfc(Append(done, Head(rest)), Tail(rest))

AllowedPunct == {"U+2019", "-"}

\* The ampersand is let through
ForbiddenButAmpersand == {";", "<", ">"}

Forbidden == {"&", ";", "<", ">"}

\* The verdict of the loop body on one character that is not a space:
\* "reject" (return false), "letter" (saw_latin_letter = true) or "pass"
CharVerdict(ch) ==
    IF ch \in Forbidden THEN "reject"
    ELSE IF IsAscii(ch) THEN (IF IsAlphabetic(ch) THEN "letter" ELSE "pass")
    ELSE IF IsAlphabetic(ch)
    THEN (IF CodePoint(ch) >= 192 /\ CodePoint(ch) <= 591 THEN "letter" ELSE "reject")
    ELSE IF ch \in AllowedPunct THEN "pass"
    ELSE IF CodePoint(ch) >= 768 /\ CodePoint(ch) <= 879 THEN "reject"
    ELSE IF CodePoint(ch) > 65535 THEN "reject"
    ELSE "pass"

\* for ch in normalized.chars() { .. } saw_latin_letter
RECURSIVE WalkChars(_, _)
WalkChars(normalized, saw_latin_letter) ==
    IF normalized = <<>> THEN saw_latin_letter
    ELSE IF Head(normalized) = " " THEN WalkChars(Tail(normalized), saw_latin_letter)
    ELSE IF CharVerdict(Head(normalized)) = "reject" THEN FALSE
    ELSE WalkChars(Tail(normalized),
                   saw_latin_letter \/ CharVerdict(Head(normalized)) = "letter")

\* is_englishlike after the normalization
EnglishlikeNormalized(normalized) ==
    IF \E i \in DOMAIN normalized :
            normalized[i] # " " /\ IsWhitespace(normalized[i]) THEN FALSE
    ELSE IF \A i \in DOMAIN normalized : IsWhitespace(normalized[i]) THEN FALSE
    ELSE WalkChars(normalized, FALSE)

IsEnglishlike(tok) == EnglishlikeNormalized(Nfc(<<>>, tok))

\* The tokens is_englishlike is called on
TokenInput(tok) == tok \in Streams(TokenChars, MaxChars)

\* is_englishlike(&title)
CallIsEnglishlike ==
    /\ tokenPc = "ready"
    /\ englishlike' = IsEnglishlike(token)
    /\ tokenPc' = "done"
    /\ UNCHANGED <<strategyVars, splitVars, parseVars, morphVars, labelVars,
                   sylVars, token, entryVars>>

InitToken ==
    /\ StrategyIdle
    /\ SplitterIdle
    /\ ParserIdle
    /\ MorphologyIdle
    /\ LabelsIdle
    /\ SyllablesIdle
    /\ EntriesIdle
    /\ TokenInput(token)
    /\ englishlike = FALSE
    /\ tokenPc = "ready"

NextToken == CallIsEnglishlike

SpecToken == InitToken /\ [][NextToken]_vars

HasForbidden(tok) == \E i \in DOMAIN tok : tok[i] \in {"&", ";", "<", ">"}
HasLetter(tok) == \E i \in DOMAIN tok : IsAlphabetic(tok[i])

\* C24 as stated: is_englishlike rejects every token that contains one of
\* the characters '&', ';', '<', '>', whatever else it contains, and every
\* token that contains no alphabetic character.
C24_ForbiddenOrLetterless ==
    (tokenPc = "done" /\ (HasForbidden(token) \/ ~HasLetter(token)))
        => ~englishlike

\* C24 amended: is_englishlike rejects every token whose composed (NFC)
\* form contains one of the characters '&', ';', '<', '>', whatever else
\* it contains, and every token that contains no alphabetic character.
C24_ForbiddenAfterNfc ==
    (tokenPc = "done" /\ (HasForbidden(Nfc(<<>>, token)) \/ ~HasLetter(token)))
        => ~englishlike

\* A token with a letter and an ampersand is rejected
C24_Witness ==
    /\ tokenPc = "done"
    /\ HasLetter(token)
    /\ \E i \in DOMAIN token : token[i] = "&"
    /\ \A i \in DOMAIN token : token[i] \in {"a", "&"}
    /\ ~englishlike

\* ------------------------------------------------------------------------
\* parse_page: the entries of one page.  The English section is a sequence
\* of lines: a level 3 or 4 header (pos: the code the taxonomy maps its
\* text to, "" if it maps it to none), a line "# ..." (kind "def"; bare: a
\* "#" with nothing after it), a line "## ..." (kind "sub"), an empty line
\* (kind "blank") or a line of other text.  items are the label templates
\* of the line, signal the secondary signal that stands on it.  Of an
\* Entry the part-of-speech code and the four tag lists are kept; its
\* other fields are copies of the WordData of the page.
\* ------------------------------------------------------------------------

MaxLines == 4

Line(kind, code, bare, items, signal) ==
    [kind |-> kind, pos |-> code, bare |-> bare, items |-> items, signal |-> signal]

HeaderLine(code) == Line("header", code, FALSE, <<>>, "none")
DefLine(items) == Line("def", "", FALSE, items, "none")
BareDefLine == Line("def", "", TRUE, <<>>, "none")
SubLine(items) == Line("sub", "", FALSE, items, "none")
BlankLine == Line("blank", "", FALSE, <<>>, "none")
\* "[[Category:English nouns]]", "{{en-noun}}", "{{plural of|en|a}}"
TextLine(signal) == Line("text", "", FALSE, <<>>, signal)

Entry(code, tags) == [pos |-> code, tags |-> tags]

\* get_pos_map().get(header_normalized): the header is a mapped one
Mapped(line) == line.kind = "header" /\ line.pos # ""

\* The first line from i on that holds more than white space, 0 if none
NextNonBlank(lines, i) ==
    FirstIndex({ j \in i..Len(lines) : lines[j].kind # "blank" })

\* DEFINITION_LINE (?m)^#\s+(.+)$ over the text of a section: \s+ matches
\* line ends as well, so after a bare "#" the capture is the next line
\* that is not blank, whatever that line is
RECURSIVE Definitions(_, _)
Definitions(lines, i) ==
    IF i = 0 \/ i > Len(lines) THEN <<>>
    ELSE IF lines[i].kind # "def" THEN Definitions(lines, i + 1)
    ELSE IF ~lines[i].bare THEN <<lines[i].items>> \o Definitions(lines, i + 1)
    ELSE IF NextNonBlank(lines, i + 1) = 0 THEN <<>>
    ELSE <<lines[NextNonBlank(lines, i + 1)].items>>
            \o Definitions(lines, NextNonBlank(lines, i + 1) + 1)

\* The index of the next mapped header after line h, Len + 1 if none
SectionEnd(lines, h) ==
    IF \E j \in (h + 1)..Len(lines) : Mapped(lines[j])
    THEN FirstIndex({ j \in (h + 1)..Len(lines) : Mapped(lines[j]) })
    ELSE Len(lines) + 1

\* parse_pos_sections: for each mapped header the definitions up to the
\* next mapped header; a section without definitions is left out
RECURSIVE PosSections(_, _)
PosSections(lines, h) ==
    IF h > Len(lines) THEN <<>>
    ELSE IF ~Mapped(lines[h]) THEN PosSections(lines, h + 1)
    ELSE (IF Definitions(SubSeq(lines, h, SectionEnd(lines, h) - 1), 1) = <<>>
          THEN <<>>
          ELSE <<[pos |-> lines[h].pos,
                  definitions |->
                      Definitions(SubSeq(lines, h, SectionEnd(lines, h) - 1), 1)]>>)
         \o PosSections(lines, SectionEnd(lines, h))

ParsePosSections(lines) == PosSections(lines, 1)

\* for def_line in &section.definitions { entries.push(..) }
SectionEntries(section) ==
    [k \in DOMAIN section.definitions |->
        Entry(section.pos, ExtractLabelsFromLine(section.definitions[k]))]

RECURSIVE AllEntries(_)
AllEntries(sections) ==
    IF sections = <<>> THEN <<>>
    ELSE SectionEntries(Head(sections)) \o AllEntries(Tail(sections))

\* Only categories and en- templates count
HasSecondarySignalNoDefinitionTemplates(lines) ==
    \E i \in DOMAIN lines : lines[i].signal \in {"category", "en_template"}

\* has_categories || has_en_templates || has_definition_templates
HasSecondarySignal(lines) ==
    \E i \in DOMAIN lines :
        lines[i].signal \in {"category", "en_template", "definition_template"}

\* parse_page from the test pos_sections.is_empty() on
EntriesOrUnknown(lines, sections) ==
    IF sections = <<>>
    THEN (IF HasSecondarySignal(lines) THEN <<Entry("unknown", NoLabels)>> ELSE <<>>)
    ELSE AllEntries(sections)

ParsePageEntries(lines) == EntriesOrUnknown(lines, ParsePosSections(lines))

Register(l) == <<Template("lb", <<l>>)>>

\* The lines of the pages
PageLines ==
    { HeaderLine("noun"), HeaderLine("verb"), HeaderLine(""),
      BareDefLine, DefLine(Register(<<"a">>)), DefLine(Register(<<"c">>)),
      SubLine(Register(<<"a">>)), BlankLine,
      TextLine("category"), TextLine("en_template"),
      TextLine("definition_template") }

PageInput(lines) == lines \in Streams(PageLines, MaxLines)

\* parse_page(&title, &text), from parse_pos_sections on
CallParsePage ==
    /\ pagePc = "ready"
    /\ entries' = ParsePageEntries(page_text)
    /\ pagePc' = "done"
    /\ UNCHANGED <<strategyVars, splitVars, parseVars, morphVars, labelVars,
                   sylVars, tokenVars, page_text>>

InitPage ==
    /\ StrategyIdle
    /\ SplitterIdle
    /\ ParserIdle
    /\ MorphologyIdle
    /\ LabelsIdle
    /\ SyllablesIdle
    /\ TokenIdle
    /\ PageInput(page_text)
    /\ entries = <<>>
    /\ pagePc = "ready"

NextPage == CallParsePage

SpecPage == InitPage /\ [][NextPage]_vars

\* A definition line: "#", white space and text on one line
IsDefinitionLine(line) == line.kind = "def" /\ ~line.bare

\* The mapped header that most recently precedes line i, 0 if none
SectionHeader(i) == 
    IF \E h \in 1..(i - 1) : Mapped(page_text[h])
    THEN CHOOSE h \in 1..(i - 1) :
            Mapped(page_text[h]) /\ \A j \in (h + 1)..(i - 1) : ~Mapped(page_text[j])
    ELSE 0

\* The definition lines of the part-of-speech sections, in document order
RECURSIVE SectionDefinitionLines(_)
SectionDefinitionLines(i) ==
    IF i > Len(page_text) THEN <<>>
    ELSE (IF IsDefinitionLine(page_text[i]) /\ SectionHeader(i) # 0
          THEN <<i>> ELSE <<>>) \o SectionDefinitionLines(i + 1)

\* C22: for a page with at least one mapped part-of-speech section that has
\* definition lines, parse_page emits exactly one entry per definition
\* line of these sections ('##' lines excluded), in document order, each
\* with the part-of-speech code of the mapped header that most recently
\* precedes the line and with the labels of that line.
C22_OneEntryPerDefinitionLine ==
    (pagePc = "done" /\ SectionDefinitionLines(1) # <<>>) =>
        entries = [k \in DOMAIN SectionDefinitionLines(1) |->
                    Entry(page_text[SectionHeader(SectionDefinitionLines(1)[k])].pos,
                          ExtractLabelsFromLine(
                              page_text[SectionDefinitionLines(1)[k]].items))]

\* C23: a page without a part-of-speech section gives exactly one entry
\* with part of speech "unknown" and empty label lists if a category
\* marker, a core part-of-speech template or a definition-generating
\* template stands in its text, and no entry if none does.
C23_UnknownOrNothing ==
    (pagePc = "done" /\ \A i \in DOMAIN page_text : ~Mapped(page_text[i])) =>
        entries = IF \E i \in DOMAIN page_text : page_text[i].signal # "none"
                  THEN <<Entry("unknown", NoLabels)>>
                  ELSE <<>>

\* A page with labelled definition lines, a definition-generating template
\* and no mapped header gives the one entry without labels
C23_Witness ==
    /\ pagePc = "done"
    /\ \A i \in DOMAIN page_text : ~Mapped(page_text[i])
    /\ \E i \in DOMAIN page_text : page_text[i] = DefLine(Register(<<"a">>))
    /\ \E i \in DOMAIN page_text : page_text[i] = HeaderLine("")
    /\ \E i \in DOMAIN page_text : page_text[i].signal = "definition_template"
    /\ entries = <<Entry("unknown", NoLabels)>>

====
